---- MODULE Spec2Model ----
(***************************************************************************)
(* Optimizer update operators of src/operator/optimizer_op-inl.h:          *)
(* SGD, SGD with momentum, mixed-precision SGD, Adam and the two RMSProp   *)
(* variants, with their dense kernels, row-sparse kernels, storage         *)
(* drivers and mixed-storage entry points.                                 *)
(*                                                                         *)
(* Element values are integer-valued floats: on them +, - and * are exact  *)
(* in every real type the kernels are instantiated for.  Division and      *)
(* square root round toward zero to the next representable value.          *)
(* A tensor is a record [stype, idx, data]: data is the flat value array   *)
(* (0-based), idx the row-index array of a row-sparse tensor.  The         *)
(* variable mem maps every tensor name to its tensor, so that a kernel     *)
(* works through pointers and an output may alias an input.                *)
(***************************************************************************)
EXTENDS Integers, Sequences, FiniteSets, TLC

\* ---------------------------------------------------------------- bounds
NumRows == 2
RowLen == 2
MaxCalls == 2

Size == NumRows * RowLen

\* ------------------------------------------------------- enumerations
kNullOp == "kNullOp"
kWriteTo == "kWriteTo"
kWriteInplace == "kWriteInplace"
kAddTo == "kAddTo"
OpReqType == {kNullOp, kWriteTo, kWriteInplace, kAddTo}

kDefaultStorage == "kDefaultStorage"
kRowSparseStorage == "kRowSparseStorage"

\* --------------------------------------------------------- arithmetic
Abs(x) == IF x < 0 THEN -x ELSE x

\* quotient rounded toward zero (b # 0)
Div(a, b) ==
  IF (a >= 0) = (b > 0) THEN Abs(a) \div Abs(b) ELSE -(Abs(a) \div Abs(b))

\* the r in lo..hi-1 with r*r <= x < (r+1)*(r+1), by bisection
RECURSIVE SqrtBetween(_, _, _)
SqrtBetween(x, lo, hi) ==
  IF hi - lo <= 1 THEN lo
  ELSE LET mid == (lo + hi) \div 2
       IN  IF mid * mid <= x THEN SqrtBetween(x, mid, hi) ELSE SqrtBetween(x, lo, mid)

\* square_root::Map on x >= 0, rounded toward zero (x below 2^30)
SquareRoot(x) == SqrtBetween(x, 0, IF x < 32768 THEN x + 1 ELSE 32768)

Square(x) == x * x

\* mshadow_op::clip::Map
Clip(x, bound) ==
  IF x > bound THEN bound ELSE IF x < -bound THEN -bound ELSE x

\* spacing of the half-precision values around magnitude a (11-bit significand)
RECURSIVE HalfUlp(_)
HalfUlp(a) == IF a < 2048 THEN 1 ELSE 2 * HalfUlp(a \div 2)

\* float -> half conversion of an integer-valued float, round to nearest even
HalfRound(a) ==
  LET u == HalfUlp(a)
      q == a \div u
      r == a % u
  IN  IF 2 * r < u THEN q * u
      ELSE IF 2 * r > u THEN (q + 1) * u
      ELSE IF q % 2 = 0 THEN q * u ELSE (q + 1) * u

CastHalf(x) == IF x < 0 THEN -HalfRound(-x) ELSE HalfRound(x)

\* ------------------------------------------------------------ tensors
Zeros(n) == [i \in 0..(n - 1) |-> 0]
Len0(a) == Cardinality(DOMAIN a)
AllRows == [i \in 0..(NumRows - 1) |-> i]
NoRows == [i \in {} |-> 0]

DenseTensor(d) == [stype |-> kDefaultStorage, idx |-> NoRows, data |-> d]
RspTensor(ix, d) == [stype |-> kRowSparseStorage, idx |-> ix, data |-> d]

\* NDArray::storage_initialized of a dense or row-sparse array
StorageInitialized(t) == IF t.stype = kRowSparseStorage THEN Len0(t.idx) > 0 ELSE TRUE

Read(m, p, i) == m[p].data[i]
Write(m, p, i, v) == [m EXCEPT ![p].data[i] = v]
WriteAll(m, p, d) == [m EXCEPT ![p].data = d]

\* KERNEL_ASSIGN(out, req, val)
KernelAssign(m, p, i, req, val) ==
  CASE req = kNullOp -> m
    [] req = kWriteTo -> Write(m, p, i, val)
    [] req = kWriteInplace -> Write(m, p, i, val)
    [] req = kAddTo -> Write(m, p, i, Read(m, p, i) + val)

\* Assign(out, req, exp) on a whole tensor; exp is the array of values
Assign(m, p, req, exp) ==
  CASE req = kNullOp -> m
    [] req = kWriteTo -> WriteAll(m, p, exp)
    [] req = kWriteInplace -> WriteAll(m, p, exp)
    [] req = kAddTo -> WriteAll(m, p, [i \in DOMAIN exp |-> m[p].data[i] + exp[i]])

\* MXNET_ASSIGN_REQ_SWITCH: the kernel's compile-time write mode
ReqType(req) == IF req = kAddTo THEN kAddTo ELSE IF req = kNullOp THEN kNullOp ELSE kWriteTo

\* what a driver or entry point returns: the memory it leaves, how it ended
\* (ok | noop | fatal), the kernel it launched and the failed check
Result(m, status, kernel, error) == [mem |-> m, status |-> status, kernel |-> kernel, error |-> error, driver |-> "none"]
Ok(m, kernel) == Result(m, "ok", kernel, "none")
Noop(m) == Result(m, "noop", "none", "none")
Fatal(m, error) == Result(m, "fatal", "none", error)

\* ------------------------------------------------------------------ SGD
\* SGDKernel clipping the gradient before it is rescaled
SGDKernel_ClipFirst(m, i, out_data, weight_data, grad_data, param_clip_gradient, param_lr, param_wd, param_rescale_grad, req) ==
  IF param_clip_gradient >= 0
  THEN KernelAssign(m, out_data, i, req,
         (1 - param_lr * param_wd) * Read(m, weight_data, i)
           - param_lr * (param_rescale_grad * Clip(Read(m, grad_data, i), param_clip_gradient)))
  ELSE KernelAssign(m, out_data, i, req,
         (1 - param_lr * param_wd) * Read(m, weight_data, i)
           - (param_lr * param_rescale_grad) * Read(m, grad_data, i))

\* SGDKernel decaying the weight by lr alone, the wd factor left out
SGDKernel_DecayByLr(m, i, out_data, weight_data, grad_data, param_clip_gradient, param_lr, param_wd, param_rescale_grad, req) ==
  IF param_clip_gradient >= 0
  THEN KernelAssign(m, out_data, i, req,
         (1 - param_lr) * Read(m, weight_data, i)
           - param_lr * Clip(param_rescale_grad * Read(m, grad_data, i), param_clip_gradient))
  ELSE KernelAssign(m, out_data, i, req,
         (1 - param_lr) * Read(m, weight_data, i)
           - (param_lr * param_rescale_grad) * Read(m, grad_data, i))

\* SGDKernel with the weight decay term inside the clipped quantity
SGDKernel_DecayInClip(m, i, out_data, weight_data, grad_data, param_clip_gradient, param_lr, param_wd, param_rescale_grad, req) ==
  IF param_clip_gradient >= 0
  THEN KernelAssign(m, out_data, i, req,
         Read(m, weight_data, i)
           - param_lr * Clip(param_rescale_grad * Read(m, grad_data, i) + param_wd * Read(m, weight_data, i), param_clip_gradient))
  ELSE KernelAssign(m, out_data, i, req,
         (1 - param_lr * param_wd) * Read(m, weight_data, i)
           - (param_lr * param_rescale_grad) * Read(m, grad_data, i))

SGDKernel(m, i, out_data, weight_data, grad_data, param_clip_gradient, param_lr, param_wd, param_rescale_grad, req) ==
  IF param_clip_gradient >= 0
  THEN KernelAssign(m, out_data, i, req,
         (1 - param_lr * param_wd) * Read(m, weight_data, i)
           - param_lr * Clip(param_rescale_grad * Read(m, grad_data, i), param_clip_gradient))
  ELSE KernelAssign(m, out_data, i, req,
         (1 - param_lr * param_wd) * Read(m, weight_data, i)
           - (param_lr * param_rescale_grad) * Read(m, grad_data, i))

\* inputs = <<weight, grad>>, outputs = <<out>>
SGDUpdate(m, param, weight, grad, req, out) ==
  LET n == Len0(m[weight].data)
      f[k \in 0..n] ==
        IF k = 0 THEN m
        ELSE SGDKernel(f[k - 1], k - 1, out, weight, grad, param.clip_gradient,
                       param.lr, param.wd, param.rescale_grad, req)
  IN  Ok(f[n], "SGDKernel")

\* SGDDnsRspKernel addressing the row of the first listed index in every work item
SGDDnsRspKernel_FirstRow(m, i, row_length, out, weight, grad, clip_gradient, lr, wd, rescale_grad, req) ==
  LET f[j \in 0..row_length] ==
        IF j = 0 THEN m
        ELSE LET data_i == m[grad].idx[0] * row_length + (j - 1)
                 grad_i == i * row_length + (j - 1)
                 mm == f[j - 1]
             IN  IF clip_gradient >= 0
                 THEN KernelAssign(mm, out, data_i, req,
                        (1 - lr * wd) * Read(mm, weight, data_i)
                          - lr * Clip(rescale_grad * Read(mm, grad, grad_i), clip_gradient))
                 ELSE KernelAssign(mm, out, data_i, req,
                        (1 - lr * wd) * Read(mm, weight, data_i)
                          - (lr * rescale_grad) * Read(mm, grad, grad_i))
  IN  f[row_length]

\* SGDDnsRspKernel addressing the weight at the work item's own position
SGDDnsRspKernel_ItemRow(m, i, row_length, out, weight, grad, clip_gradient, lr, wd, rescale_grad, req) ==
  LET f[j \in 0..row_length] ==
        IF j = 0 THEN m
        ELSE LET data_i == i * row_length + (j - 1)
                 grad_i == i * row_length + (j - 1)
                 mm == f[j - 1]
             IN  IF clip_gradient >= 0
                 THEN KernelAssign(mm, out, data_i, req,
                        (1 - lr * wd) * Read(mm, weight, data_i)
                          - lr * Clip(rescale_grad * Read(mm, grad, grad_i), clip_gradient))
                 ELSE KernelAssign(mm, out, data_i, req,
                        (1 - lr * wd) * Read(mm, weight, data_i)
                          - (lr * rescale_grad) * Read(mm, grad, grad_i))
  IN  f[row_length]

\* one row i of the row-sparse gradient, applied to row grad_idx[i] of out/weight
SGDDnsRspKernel(m, i, row_length, out, weight, grad, clip_gradient, lr, wd, rescale_grad, req) ==
  LET f[j \in 0..row_length] ==
        IF j = 0 THEN m
        ELSE LET data_i == m[grad].idx[i] * row_length + (j - 1)
                 grad_i == i * row_length + (j - 1)
                 mm == f[j - 1]
             IN  IF clip_gradient >= 0
                 THEN KernelAssign(mm, out, data_i, req,
                        (1 - lr * wd) * Read(mm, weight, data_i)
                          - lr * Clip(rescale_grad * Read(mm, grad, grad_i), clip_gradient))
                 ELSE KernelAssign(mm, out, data_i, req,
                        (1 - lr * wd) * Read(mm, weight, data_i)
                          - (lr * rescale_grad) * Read(mm, grad, grad_i))
  IN  f[row_length]

\* SGDUpdateDnsRspImpl without the check of the write mode
SGDUpdateDnsRspImpl_AnyMode(m, param, weight, grad, req, out) ==
  IF m[grad].stype # kRowSparseStorage THEN Fatal(m, "CHECK_EQ grad.storage_type")
  ELSE IF ~StorageInitialized(m[grad]) \/ req = kNullOp THEN Noop(m)
  ELSE IF ~(Len0(m[weight].data) > 0) THEN Fatal(m, "CHECK_GT weight.Size")
  ELSE LET num_rows == Len0(m[grad].idx)
           f[k \in 0..num_rows] ==
             IF k = 0 THEN m
             ELSE SGDDnsRspKernel(f[k - 1], k - 1, RowLen, out, weight, grad, param.clip_gradient,
                                  param.lr, param.wd, param.rescale_grad, ReqType(req))
       IN  Ok(f[num_rows], "SGDDnsRspKernel")

SGDUpdateDnsRspImpl(m, param, weight, grad, req, out) ==
  IF m[grad].stype # kRowSparseStorage THEN Fatal(m, "CHECK_EQ grad.storage_type")
  ELSE IF ~StorageInitialized(m[grad]) \/ req = kNullOp THEN Noop(m)
  ELSE IF req # kWriteInplace THEN Fatal(m, "CHECK_EQ req kWriteInplace")
  ELSE IF ~(Len0(m[weight].data) > 0) THEN Fatal(m, "CHECK_GT weight.Size")
  ELSE LET num_rows == Len0(m[grad].idx)
           f[k \in 0..num_rows] ==
             IF k = 0 THEN m
             ELSE SGDDnsRspKernel(f[k - 1], k - 1, RowLen, out, weight, grad, param.clip_gradient,
                                  param.lr, param.wd, param.rescale_grad, ReqType(req))
       IN  Ok(f[num_rows], "SGDDnsRspKernel")

\* SGDRspDnsKernel without the skip of rows whose gradient is all zero
SGDRspDnsKernel_NoSkip(m, i, num_cols, out, weight, grad, clip_gradient, lr, wd, rescale_grad, req) ==
  LET offset == i * num_cols
      rate == 1 - lr * wd
      f[j \in 0..num_cols] ==
        IF j = 0 THEN m
        ELSE LET index == offset + (j - 1)
                 mm == f[j - 1]
             IN  IF clip_gradient >= 0
                 THEN KernelAssign(mm, out, index, req,
                        rate * Read(mm, weight, index)
                          - lr * Clip(rescale_grad * Read(mm, grad, index), clip_gradient))
                 ELSE KernelAssign(mm, out, index, req,
                        rate * Read(mm, weight, index) - lr * rescale_grad * Read(mm, grad, index))
  IN  f[num_cols]

\* one row i of the row-sparse weight against the same row of the dense gradient
SGDRspDnsKernel(m, i, num_cols, out, weight, grad, clip_gradient, lr, wd, rescale_grad, req) ==
  LET offset == i * num_cols
      contains_non_zeros == \E j \in 0..(num_cols - 1) : Read(m, grad, offset + j) # 0
      rate == 1 - lr * wd
      f[j \in 0..num_cols] ==
        IF j = 0 THEN m
        ELSE LET index == offset + (j - 1)
                 mm == f[j - 1]
             IN  IF clip_gradient >= 0
                 THEN KernelAssign(mm, out, index, req,
                        rate * Read(mm, weight, index)
                          - lr * Clip(rescale_grad * Read(mm, grad, index), clip_gradient))
                 ELSE KernelAssign(mm, out, index, req,
                        rate * Read(mm, weight, index) - lr * rescale_grad * Read(mm, grad, index))
  IN  IF ~contains_non_zeros THEN m ELSE f[num_cols]

\* CHECK_RSP_ALL_ROWS_NON_ZERO(rsp, func, param): storage_shape[0] == shape[0]
RspAllRowsNonZero(t) == Len0(t.idx) = NumRows

SGDUpdateRspDnsImpl(m, param, weight, grad, req, out) ==
  IF ~RspAllRowsNonZero(m[weight]) THEN Fatal(m, "CHECK_RSP_ALL_ROWS_NON_ZERO")
  ELSE IF m[weight].stype # kRowSparseStorage THEN Fatal(m, "CHECK_EQ weight.storage_type")
  ELSE IF req = kNullOp THEN Noop(m)
  ELSE IF req # kWriteInplace THEN Fatal(m, "CHECK_EQ req kWriteInplace")
  ELSE IF ~StorageInitialized(m[weight]) THEN Fatal(m, "CHECK weight.storage_initialized")
  ELSE LET num_rows == Len0(m[weight].idx)
           f[k \in 0..num_rows] ==
             IF k = 0 THEN m
             ELSE SGDRspDnsKernel(f[k - 1], k - 1, RowLen, out, weight, grad, param.clip_gradient,
                                  param.lr, param.wd, param.rescale_grad, ReqType(req))
       IN  Ok(f[num_rows], "SGDRspDnsKernel")

SGDUpdateRspRspImpl(m, param, weight, grad, req, out) ==
  IF ~RspAllRowsNonZero(m[weight]) THEN Fatal(m, "CHECK_RSP_ALL_ROWS_NON_ZERO")
  ELSE SGDUpdateDnsRspImpl(m, param, weight, grad, req, out)

\* --------------------------------------------------------- SGD momentum
\* SGDMomKernel assigning the output before the momentum is stored
SGDMomKernel_OutFirst(m, i, out_data, mom_data, weight_data, grad_data, param_clip_gradient, param_momentum, param_lr, param_wd, param_rescale_grad, req) ==
  LET m1 == KernelAssign(m, out_data, i, req, Read(m, weight_data, i) + Read(m, mom_data, i))
  IN  IF param_clip_gradient >= 0
      THEN Write(m1, mom_data, i,
             param_momentum * Read(m1, mom_data, i)
               - param_lr * param_wd * Read(m1, weight_data, i)
               - param_lr * Clip(param_rescale_grad * Read(m1, grad_data, i), param_clip_gradient))
      ELSE Write(m1, mom_data, i,
             param_momentum * Read(m1, mom_data, i)
               - param_lr * param_wd * Read(m1, weight_data, i)
               - param_lr * param_rescale_grad * Read(m1, grad_data, i))

\* SGDMomKernel doing nothing at all under the skip write mode
SGDMomKernel_SkipAll(m, i, out_data, mom_data, weight_data, grad_data, param_clip_gradient, param_momentum, param_lr, param_wd, param_rescale_grad, req) ==
  LET m1 == IF param_clip_gradient >= 0
            THEN Write(m, mom_data, i,
                   param_momentum * Read(m, mom_data, i)
                     - param_lr * param_wd * Read(m, weight_data, i)
                     - param_lr * Clip(param_rescale_grad * Read(m, grad_data, i), param_clip_gradient))
            ELSE Write(m, mom_data, i,
                   param_momentum * Read(m, mom_data, i)
                     - param_lr * param_wd * Read(m, weight_data, i)
                     - param_lr * param_rescale_grad * Read(m, grad_data, i))
  IN  IF req = kNullOp THEN m ELSE KernelAssign(m1, out_data, i, req, Read(m1, weight_data, i) + Read(m1, mom_data, i))

SGDMomKernel(m, i, out_data, mom_data, weight_data, grad_data, param_clip_gradient, param_momentum, param_lr, param_wd, param_rescale_grad, req) ==
  LET m1 == IF param_clip_gradient >= 0
            THEN Write(m, mom_data, i,
                   param_momentum * Read(m, mom_data, i)
                     - param_lr * param_wd * Read(m, weight_data, i)
                     - param_lr * Clip(param_rescale_grad * Read(m, grad_data, i), param_clip_gradient))
            ELSE Write(m, mom_data, i,
                   param_momentum * Read(m, mom_data, i)
                     - param_lr * param_wd * Read(m, weight_data, i)
                     - param_lr * param_rescale_grad * Read(m, grad_data, i))
  IN  KernelAssign(m1, out_data, i, req, Read(m1, weight_data, i) + Read(m1, mom_data, i))

\* inputs = <<weight, grad, mom>>, outputs = <<out>>
SGDMomUpdate(m, param, weight, grad, mom, req, out) ==
  LET n == Len0(m[weight].data)
      f[k \in 0..n] ==
        IF k = 0 THEN m
        ELSE SGDMomKernel(f[k - 1], k - 1, out, mom, weight, grad, param.clip_gradient,
                          param.momentum, param.lr, param.wd, param.rescale_grad, req)
  IN  Ok(f[n], "SGDMomKernel")

\* ------------------------------------------------- mixed-precision SGD
\* MP_SGDKernel clipping only for a positive clip_gradient
MP_SGDKernel_PositiveClip(m, i, out_data, weight_data, grad_data, weight32, param_clip_gradient, param_lr, param_wd, param_rescale_grad, req) ==
  IF param_clip_gradient > 0
  THEN LET w0 == Read(m, weight32, i)
           w == (1 - param_lr * param_wd) * w0
                  - param_lr * Clip(param_rescale_grad * Read(m, grad_data, i), param_clip_gradient)
           m1 == Write(m, weight32, i, w)
       IN  KernelAssign(m1, out_data, i, req, CastHalf(w))
  ELSE LET w0 == Read(m, weight32, i)
           w == (1 - param_lr * param_wd) * w0
                  - (param_lr * param_rescale_grad) * Read(m, grad_data, i)
           m1 == Write(m, weight32, i, w)
       IN  KernelAssign(m1, out_data, i, req, CastHalf(w))

\* MP_SGDKernel storing the down-cast value in the master buffer
MP_SGDKernel_NarrowMaster(m, i, out_data, weight_data, grad_data, weight32, param_clip_gradient, param_lr, param_wd, param_rescale_grad, req) ==
  IF param_clip_gradient >= 0
  THEN LET w0 == Read(m, weight32, i)
           w == (1 - param_lr * param_wd) * w0
                  - param_lr * Clip(param_rescale_grad * Read(m, grad_data, i), param_clip_gradient)
           m1 == Write(m, weight32, i, CastHalf(w))
       IN  KernelAssign(m1, out_data, i, req, CastHalf(w))
  ELSE LET w0 == Read(m, weight32, i)
           w == (1 - param_lr * param_wd) * w0
                  - (param_lr * param_rescale_grad) * Read(m, grad_data, i)
           m1 == Write(m, weight32, i, CastHalf(w))
       IN  KernelAssign(m1, out_data, i, req, CastHalf(w))

\* out, weight and grad hold half-precision values, weight32 and mom float
MP_SGDKernel(m, i, out_data, weight_data, grad_data, weight32, param_clip_gradient, param_lr, param_wd, param_rescale_grad, req) ==
  IF param_clip_gradient >= 0
  THEN LET w0 == Read(m, weight32, i)
           w == (1 - param_lr * param_wd) * w0
                  - param_lr * Clip(param_rescale_grad * Read(m, grad_data, i), param_clip_gradient)
           m1 == Write(m, weight32, i, w)
       IN  KernelAssign(m1, out_data, i, req, CastHalf(w))
  ELSE LET w0 == Read(m, weight32, i)
           w == (1 - param_lr * param_wd) * w0
                  - (param_lr * param_rescale_grad) * Read(m, grad_data, i)
           m1 == Write(m, weight32, i, w)
       IN  KernelAssign(m1, out_data, i, req, CastHalf(w))

\* inputs = <<weight, grad, weight32>>, outputs = <<out>>
MP_SGDUpdate(m, param, weight, grad, weight32, req, out) ==
  LET n == Len0(m[weight].data)
      f[k \in 0..n] ==
        IF k = 0 THEN m
        ELSE MP_SGDKernel(f[k - 1], k - 1, out, weight, grad, weight32, param.clip_gradient,
                          param.lr, param.wd, param.rescale_grad, req)
  IN  Ok(f[n], "MP_SGDKernel")

\* MP_SGDMomKernel reading the narrow weight input instead of the master buffer
MP_SGDMomKernel_NarrowWeight(m, i, out_data, mom_data, weight_data, grad_data, weight32, param_clip_gradient, param_momentum, param_lr, param_wd, param_rescale_grad, req) ==
  LET w0 == Read(m, weight_data, i)
      mom0 == Read(m, mom_data, i)
      mom == IF param_clip_gradient >= 0
             THEN param_momentum * mom0 - param_lr * param_wd * w0
                    - param_lr * Clip(param_rescale_grad * Read(m, grad_data, i), param_clip_gradient)
             ELSE param_momentum * mom0 - param_lr * param_wd * w0
                    - param_lr * param_rescale_grad * Read(m, grad_data, i)
      m1 == Write(m, mom_data, i, mom)
      w == w0 + mom
      m2 == Write(m1, weight32, i, w)
  IN  KernelAssign(m2, out_data, i, req, CastHalf(w))

MP_SGDMomKernel(m, i, out_data, mom_data, weight_data, grad_data, weight32, param_clip_gradient, param_momentum, param_lr, param_wd, param_rescale_grad, req) ==
  LET w0 == Read(m, weight32, i)
      mom0 == Read(m, mom_data, i)
      mom == IF param_clip_gradient >= 0
             THEN param_momentum * mom0 - param_lr * param_wd * w0
                    - param_lr * Clip(param_rescale_grad * Read(m, grad_data, i), param_clip_gradient)
             ELSE param_momentum * mom0 - param_lr * param_wd * w0
                    - param_lr * param_rescale_grad * Read(m, grad_data, i)
      m1 == Write(m, mom_data, i, mom)
      w == w0 + mom
      m2 == Write(m1, weight32, i, w)
  IN  KernelAssign(m2, out_data, i, req, CastHalf(w))

\* inputs = <<weight, grad, mom, weight32>>, outputs = <<out>>
MP_SGDMomUpdate(m, param, weight, grad, mom, weight32, req, out) ==
  LET n == Len0(m[weight].data)
      f[k \in 0..n] ==
        IF k = 0 THEN m
        ELSE MP_SGDMomKernel(f[k - 1], k - 1, out, mom, weight, grad, weight32, param.clip_gradient,
                             param.momentum, param.lr, param.wd, param.rescale_grad, req)
  IN  Ok(f[n], "MP_SGDMomKernel")

\* -------------------------------------------------- sparse SGD momentum
\* SGDMomDnsRspDnsKernel addressing the tensors by the gradient's own row
\* number i instead of the row grad_idx[i] it stands for
SGDMomDnsRspDnsKernel_OwnRow(m, i, row_length, out_data, mom_data, weight_data, grad, clip_gradient, momentum, lr, wd, rescale_grad, req) ==
  LET rate == lr * wd
      f[j \in 0..row_length] ==
        IF j = 0 THEN m
        ELSE LET data_i == i * row_length + (j - 1)
                 grad_i == i * row_length + (j - 1)
                 mm == f[j - 1]
                 m1 == IF clip_gradient >= 0
                       THEN Write(mm, mom_data, data_i,
                              momentum * Read(mm, mom_data, data_i)
                                - rate * Read(mm, weight_data, data_i)
                                - lr * Clip(rescale_grad * Read(mm, grad, grad_i), clip_gradient))
                       ELSE Write(mm, mom_data, data_i,
                              momentum * Read(mm, mom_data, data_i)
                                - rate * Read(mm, weight_data, data_i)
                                - lr * rescale_grad * Read(mm, grad, grad_i))
             IN  KernelAssign(m1, out_data, data_i, req,
                              Read(m1, weight_data, data_i) + Read(m1, mom_data, data_i))
  IN  f[row_length]

SGDMomDnsRspDnsKernel(m, i, row_length, out_data, mom_data, weight_data, grad, clip_gradient, momentum, lr, wd, rescale_grad, req) ==
  LET rate == lr * wd
      f[j \in 0..row_length] ==
        IF j = 0 THEN m
        ELSE LET data_i == m[grad].idx[i] * row_length + (j - 1)
                 grad_i == i * row_length + (j - 1)
                 mm == f[j - 1]
                 m1 == IF clip_gradient >= 0
                       THEN Write(mm, mom_data, data_i,
                              momentum * Read(mm, mom_data, data_i)
                                - rate * Read(mm, weight_data, data_i)
                                - lr * Clip(rescale_grad * Read(mm, grad, grad_i), clip_gradient))
                       ELSE Write(mm, mom_data, data_i,
                              momentum * Read(mm, mom_data, data_i)
                                - rate * Read(mm, weight_data, data_i)
                                - lr * rescale_grad * Read(mm, grad, grad_i))
             IN  KernelAssign(m1, out_data, data_i, req,
                              Read(m1, weight_data, data_i) + Read(m1, mom_data, data_i))
  IN  f[row_length]

\* SGDMomUpdateDnsRspDnsImpl checking the write mode before the early return
SGDMomUpdateDnsRspDnsImpl_ModeFirst(m, param, weight, grad, mom, req, out) ==
  IF req # kWriteInplace THEN Fatal(m, "CHECK_EQ req kWriteInplace")
  ELSE IF ~StorageInitialized(m[grad]) \/ req = kNullOp THEN Noop(m)
  ELSE IF ~(Len0(m[weight].data) > 0) THEN Fatal(m, "CHECK_GT weight.Size")
  ELSE IF ~(Len0(m[mom].data) > 0) THEN Fatal(m, "CHECK_GT mom.Size")
  ELSE LET num_rows == Len0(m[grad].idx)
           f[k \in 0..num_rows] ==
             IF k = 0 THEN m
             ELSE SGDMomDnsRspDnsKernel(f[k - 1], k - 1, RowLen, out, mom, weight, grad,
                                        param.clip_gradient, param.momentum, param.lr, param.wd,
                                        param.rescale_grad, ReqType(req))
       IN  Ok(f[num_rows], "SGDMomDnsRspDnsKernel")

SGDMomUpdateDnsRspDnsImpl(m, param, weight, grad, mom, req, out) ==
  IF ~StorageInitialized(m[grad]) \/ req = kNullOp THEN Noop(m)
  ELSE IF req # kWriteInplace THEN Fatal(m, "CHECK_EQ req kWriteInplace")
  ELSE IF ~(Len0(m[weight].data) > 0) THEN Fatal(m, "CHECK_GT weight.Size")
  ELSE IF ~(Len0(m[mom].data) > 0) THEN Fatal(m, "CHECK_GT mom.Size")
  ELSE LET num_rows == Len0(m[grad].idx)
           f[k \in 0..num_rows] ==
             IF k = 0 THEN m
             ELSE SGDMomDnsRspDnsKernel(f[k - 1], k - 1, RowLen, out, mom, weight, grad,
                                        param.clip_gradient, param.momentum, param.lr, param.wd,
                                        param.rescale_grad, ReqType(req))
       IN  Ok(f[num_rows], "SGDMomDnsRspDnsKernel")

SGDMomRspDnsKernel(m, i, num_cols, out, mom, weight, grad, clip_gradient, momentum, lr, wd, rescale_grad, req) ==
  LET offset == i * num_cols
      contains_non_zeros == \E j \in 0..(num_cols - 1) : Read(m, grad, offset + j) # 0
      rate == lr * wd
      f[j \in 0..num_cols] ==
        IF j = 0 THEN m
        ELSE LET index == offset + (j - 1)
                 mm == f[j - 1]
                 m1 == IF clip_gradient >= 0
                       THEN Write(mm, mom, index,
                              momentum * Read(mm, mom, index) - rate * Read(mm, weight, index)
                                - lr * Clip(rescale_grad * Read(mm, grad, index), clip_gradient))
                       ELSE Write(mm, mom, index,
                              momentum * Read(mm, mom, index) - rate * Read(mm, weight, index)
                                - lr * rescale_grad * Read(mm, grad, index))
             IN  KernelAssign(m1, out, index, req, Read(m1, weight, index) + Read(m1, mom, index))
  IN  IF ~contains_non_zeros THEN m ELSE f[num_cols]

\* FillDnsZerosRspImpl(s, &dst): every row present, every value zero
FillDnsZerosRspImpl(m, dst) == [m EXCEPT ![dst] = RspTensor(AllRows, Zeros(Size))]

SGDMomUpdateRspDnsImpl(m, param, weight, grad, mom, req, out) ==
  IF ~RspAllRowsNonZero(m[weight]) THEN Fatal(m, "CHECK_RSP_ALL_ROWS_NON_ZERO")
  ELSE IF m[weight].stype # kRowSparseStorage THEN Fatal(m, "CHECK_EQ weight.storage_type")
  ELSE IF req = kNullOp THEN Noop(m)
  ELSE IF req # kWriteInplace THEN Fatal(m, "CHECK_EQ req kWriteInplace")
  ELSE IF ~StorageInitialized(m[weight]) THEN Fatal(m, "CHECK weight.storage_initialized")
  ELSE LET m0 == IF ~StorageInitialized(m[mom]) THEN FillDnsZerosRspImpl(m, mom) ELSE m
           num_rows == Len0(m0[weight].idx)
           f[k \in 0..num_rows] ==
             IF k = 0 THEN m0
             ELSE SGDMomRspDnsKernel(f[k - 1], k - 1, RowLen, out, mom, weight, grad,
                                     param.clip_gradient, param.momentum, param.lr, param.wd,
                                     param.rescale_grad, ReqType(req))
       IN  Ok(f[num_rows], "SGDMomRspDnsKernel")

\* SGDMomUpdateRspRspRspImpl zero-filling the momentum on every call
SGDMomUpdateRspRspRspImpl_AlwaysFill(m, param, weight, grad, mom, req, out) ==
  IF ~RspAllRowsNonZero(m[weight]) THEN Fatal(m, "CHECK_RSP_ALL_ROWS_NON_ZERO")
  ELSE SGDMomUpdateDnsRspDnsImpl(FillDnsZerosRspImpl(m, mom), param, weight, grad, mom, req, out)

SGDMomUpdateRspRspRspImpl(m, param, weight, grad, mom, req, out) ==
  IF ~RspAllRowsNonZero(m[weight]) THEN Fatal(m, "CHECK_RSP_ALL_ROWS_NON_ZERO")
  ELSE LET m0 == IF ~StorageInitialized(m[mom]) THEN FillDnsZerosRspImpl(m, mom) ELSE m
       IN  SGDMomUpdateDnsRspDnsImpl(m0, param, weight, grad, mom, req, out)

\* ----------------------------------------------------------------- Adam
\* inputs = <<weight, grad, mean, var>>, outputs = <<out>>; every statement is
\* an element-wise tensor assignment, evaluated over the whole tensor in turn
AdamUpdate(m, param, weight, grad, mean, var, req, out) ==
  LET D == DOMAIN m[weight].data
      m1 == WriteAll(m, grad, [i \in D |-> param.rescale_grad * Read(m, grad, i) + param.wd * Read(m, weight, i)])
      m2 == IF param.clip_gradient >= 0
            THEN WriteAll(m1, mean, [i \in D |-> param.beta1 * Read(m1, mean, i)
                                       + (1 - param.beta1) * Clip(Read(m1, grad, i), param.clip_gradient)])
            ELSE WriteAll(m1, mean, [i \in D |-> param.beta1 * Read(m1, mean, i)
                                       + (1 - param.beta1) * Read(m1, grad, i)])
      m3 == IF param.clip_gradient >= 0
            THEN WriteAll(m2, var, [i \in D |-> param.beta2 * Read(m2, var, i)
                                      + (1 - param.beta2) * Square(Clip(Read(m2, grad, i), param.clip_gradient))])
            ELSE WriteAll(m2, var, [i \in D |-> param.beta2 * Read(m2, var, i)
                                      + (1 - param.beta2) * Square(Read(m2, grad, i))])
  IN  Ok(Assign(m3, out, req,
                [i \in D |-> Read(m3, weight, i)
                               - Div(param.lr * Read(m3, mean, i), SquareRoot(Read(m3, var, i)) + param.epsilon)]),
         "AdamUpdate")

\* AdamDnsRspDnsKernel without the weight decay term in the rescaled gradient
AdamDnsRspDnsKernel_NoDecay(m, i, row_length, out_data, mean_data, var_data, weight_data, grad, clip_gradient, beta1, beta2, lr, wd, epsilon, rescale_grad, req) ==
  LET row_offset == m[grad].idx[i] * row_length
      f[j \in 0..row_length] ==
        IF j = 0 THEN m
        ELSE LET data_i == row_offset + (j - 1)
                 grad_i == i * row_length + (j - 1)
                 mm == f[j - 1]
                 grad_rescaled == Read(mm, grad, grad_i) * rescale_grad
                 m1 == IF clip_gradient >= 0
                       THEN Write(mm, mean_data, data_i,
                              beta1 * Read(mm, mean_data, data_i) + (1 - beta1) * Clip(grad_rescaled, clip_gradient))
                       ELSE Write(mm, mean_data, data_i,
                              beta1 * Read(mm, mean_data, data_i) + (1 - beta1) * grad_rescaled)
                 m2 == IF clip_gradient >= 0
                       THEN Write(m1, var_data, data_i,
                              beta2 * Read(m1, var_data, data_i) + (1 - beta2) * Square(Clip(grad_rescaled, clip_gradient)))
                       ELSE Write(m1, var_data, data_i,
                              beta2 * Read(m1, var_data, data_i) + (1 - beta2) * grad_rescaled * grad_rescaled)
             IN  KernelAssign(m2, out_data, data_i, req,
                   Read(m2, weight_data, data_i)
                     - Div(lr * Read(m2, mean_data, data_i), SquareRoot(Read(m2, var_data, data_i)) + epsilon))
  IN  f[row_length]

AdamDnsRspDnsKernel(m, i, row_length, out_data, mean_data, var_data, weight_data, grad, clip_gradient, beta1, beta2, lr, wd, epsilon, rescale_grad, req) ==
  LET row_offset == m[grad].idx[i] * row_length
      f[j \in 0..row_length] ==
        IF j = 0 THEN m
        ELSE LET data_i == row_offset + (j - 1)
                 grad_i == i * row_length + (j - 1)
                 mm == f[j - 1]
                 grad_rescaled == Read(mm, grad, grad_i) * rescale_grad + Read(mm, weight_data, data_i) * wd
                 m1 == IF clip_gradient >= 0
                       THEN Write(mm, mean_data, data_i,
                              beta1 * Read(mm, mean_data, data_i) + (1 - beta1) * Clip(grad_rescaled, clip_gradient))
                       ELSE Write(mm, mean_data, data_i,
                              beta1 * Read(mm, mean_data, data_i) + (1 - beta1) * grad_rescaled)
                 m2 == IF clip_gradient >= 0
                       THEN Write(m1, var_data, data_i,
                              beta2 * Read(m1, var_data, data_i) + (1 - beta2) * Square(Clip(grad_rescaled, clip_gradient)))
                       ELSE Write(m1, var_data, data_i,
                              beta2 * Read(m1, var_data, data_i) + (1 - beta2) * grad_rescaled * grad_rescaled)
             IN  KernelAssign(m2, out_data, data_i, req,
                   Read(m2, weight_data, data_i)
                     - Div(lr * Read(m2, mean_data, data_i), SquareRoot(Read(m2, var_data, data_i)) + epsilon))
  IN  f[row_length]

AdamUpdateDnsRspDnsImpl(m, param, weight, grad, mean, var, req, out) ==
  IF ~StorageInitialized(m[grad]) \/ req = kNullOp THEN Noop(m)
  ELSE IF req # kWriteInplace THEN Fatal(m, "CHECK_EQ req kWriteInplace")
  ELSE IF ~(Len0(m[weight].data) > 0) THEN Fatal(m, "CHECK_GT weight.Size")
  ELSE IF ~(Len0(m[mean].data) > 0) THEN Fatal(m, "CHECK_GT mean.Size")
  ELSE IF ~(Len0(m[var].data) > 0) THEN Fatal(m, "CHECK_GT var.Size")
  ELSE LET num_rows == Len0(m[grad].idx)
           f[k \in 0..num_rows] ==
             IF k = 0 THEN m
             ELSE AdamDnsRspDnsKernel(f[k - 1], k - 1, RowLen, out, mean, var, weight, grad,
                                      param.clip_gradient, param.beta1, param.beta2, param.lr,
                                      param.wd, param.epsilon, param.rescale_grad, ReqType(req))
       IN  Ok(f[num_rows], "AdamDnsRspDnsKernel")

AdamUpdateRspRspRspImpl(m, param, weight, grad, mean, var, req, out) ==
  IF ~RspAllRowsNonZero(m[weight]) THEN Fatal(m, "CHECK_RSP_ALL_ROWS_NON_ZERO")
  ELSE LET m0 == IF ~StorageInitialized(m[mean]) THEN FillDnsZerosRspImpl(m, mean) ELSE m
           m1 == IF ~StorageInitialized(m0[var]) THEN FillDnsZerosRspImpl(m0, var) ELSE m0
       IN  AdamUpdateDnsRspDnsImpl(m1, param, weight, grad, mean, var, req, out)

\* -------------------------------------------------------------- RMSProp
\* RMSPropAlexUpdate without the weight clip
RMSPropAlexUpdate_NoWeightClip(m, param, weight, grad, state_n, state_g, delta, req, out) ==
  LET D == DOMAIN m[weight].data
      clipped == param.clip_gradient >= 0
      m1 == WriteAll(m, grad, [i \in D |-> param.rescale_grad * Read(m, grad, i) + param.wd * Read(m, weight, i)])
      G(i) == IF clipped THEN Clip(Read(m1, grad, i), param.clip_gradient) ELSE Read(m1, grad, i)
      m2 == WriteAll(m1, state_n, [i \in D |-> (1 - param.gamma1) * (G(i) * G(i)) + param.gamma1 * Read(m1, state_n, i)])
      m3 == WriteAll(m2, state_g, [i \in D |-> (1 - param.gamma1) * G(i) + param.gamma1 * Read(m2, state_g, i)])
      m4 == WriteAll(m3, delta, [i \in D |-> param.gamma2 * Read(m3, delta, i)
                   - param.lr * Div(G(i), SquareRoot(Read(m3, state_n, i) - Read(m3, state_g, i) * Read(m3, state_g, i) + param.epsilon))])
  IN  Ok(Assign(m4, out, req, [i \in D |-> Read(m4, weight, i) + Read(m4, delta, i)]), "RMSPropAlexUpdate")

\* inputs = <<weight, grad, state_n, state_g, delta>>, outputs = <<out>>
RMSPropAlexUpdate(m, param, weight, grad, state_n, state_g, delta, req, out) ==
  LET D == DOMAIN m[weight].data
      clipped == param.clip_gradient >= 0
      m1 == WriteAll(m, grad, [i \in D |-> param.rescale_grad * Read(m, grad, i) + param.wd * Read(m, weight, i)])
      G(i) == IF clipped THEN Clip(Read(m1, grad, i), param.clip_gradient) ELSE Read(m1, grad, i)
      m2 == WriteAll(m1, state_n, [i \in D |-> (1 - param.gamma1) * (G(i) * G(i)) + param.gamma1 * Read(m1, state_n, i)])
      m3 == WriteAll(m2, state_g, [i \in D |-> (1 - param.gamma1) * G(i) + param.gamma1 * Read(m2, state_g, i)])
      m4 == WriteAll(m3, delta, [i \in D |-> param.gamma2 * Read(m3, delta, i)
                   - param.lr * Div(G(i), SquareRoot(Read(m3, state_n, i) - Read(m3, state_g, i) * Read(m3, state_g, i) + param.epsilon))])
  IN  IF param.clip_weights >= 0
      THEN Ok(Assign(m4, out, req, [i \in D |-> Clip(Read(m4, weight, i) + Read(m4, delta, i), param.clip_weights)]), "RMSPropAlexUpdate")
      ELSE Ok(Assign(m4, out, req, [i \in D |-> Read(m4, weight, i) + Read(m4, delta, i)]), "RMSPropAlexUpdate")

\* inputs = <<weight, grad, state_n>>, outputs = <<out>>
RMSPropUpdate(m, param, weight, grad, state_n, req, out) ==
  LET D == DOMAIN m[weight].data
      m1 == WriteAll(m, grad, [i \in D |-> param.rescale_grad * Read(m, grad, i) + param.wd * Read(m, weight, i)])
  IN  IF param.clip_gradient >= 0
      THEN LET m2 == WriteAll(m1, state_n, [i \in D |->
                       (1 - param.gamma1) * Clip(Read(m1, grad, i), param.clip_gradient) * Clip(Read(m1, grad, i), param.clip_gradient)
                         + param.gamma1 * Read(m1, state_n, i)])
               step == [i \in D |-> Read(m2, weight, i)
                          - param.lr * Div(Clip(Read(m2, grad, i), param.clip_gradient), SquareRoot(Read(m2, state_n, i) + param.epsilon))]
           IN  IF param.clip_weights >= 0
               THEN Ok(Assign(m2, out, req, [i \in D |-> Clip(step[i], param.clip_weights)]), "RMSPropUpdate")
               ELSE Ok(Assign(m2, out, req, step), "RMSPropUpdate")
      ELSE LET m2 == WriteAll(m1, state_n, [i \in D |->
                       (1 - param.gamma1) * (Read(m1, grad, i) * Read(m1, grad, i)) + param.gamma1 * Read(m1, state_n, i)])
               step == [i \in D |-> Read(m2, weight, i)
                          - param.lr * Div(Read(m2, grad, i), SquareRoot(Read(m2, state_n, i) + param.epsilon))]
           IN  IF param.clip_weights >= 0
               THEN Ok(Assign(m2, out, req, [i \in D |-> Clip(step[i], param.clip_weights)]), "RMSPropUpdate")
               ELSE Ok(Assign(m2, out, req, step), "RMSPropUpdate")

\* ------------------------------------------------- hyperparameter records
\* attrs.parsed: the typed hyperparameter record of the operator node
LrVals == {1, 2}
WdVals == {0, 1}
RescaleVals == {1, 2}
ClipVals == {-1, 0, 1}

SGDParams ==
  { [type |-> "SGDParam", lr |-> l, wd |-> w, rescale_grad |-> r, clip_gradient |-> c] :
      l \in LrVals, w \in WdVals, r \in RescaleVals, c \in ClipVals }

SGDMomParams ==
  { [type |-> "SGDMomParam", lr |-> l, momentum |-> mo, wd |-> w, rescale_grad |-> r, clip_gradient |-> c] :
      l \in LrVals, mo \in {0, 2}, w \in WdVals, r \in RescaleVals, c \in ClipVals }

AdamParams ==
  { [type |-> "AdamParam", lr |-> l, beta1 |-> b1, beta2 |-> b2, epsilon |-> 1, wd |-> w, rescale_grad |-> 2, clip_gradient |-> c] :
      l \in LrVals, b1 \in {0, 2}, b2 \in {0, 1}, w \in WdVals, c \in ClipVals }

RMSPropParams ==
  { [type |-> "RMSPropParam", lr |-> l, gamma1 |-> g1, epsilon |-> 1, wd |-> w, rescale_grad |-> 2, clip_gradient |-> c, clip_weights |-> cw] :
      l \in LrVals, g1 \in {0, 1}, w \in WdVals, c \in ClipVals, cw \in ClipVals }

RMSPropAlexParams ==
  { [type |-> "RMSPropAlexParam", lr |-> l, gamma1 |-> g1, gamma2 |-> 2, epsilon |-> 1, wd |-> w, rescale_grad |-> 2, clip_gradient |-> c, clip_weights |-> cw] :
      l \in LrVals, g1 \in {0, 1}, w \in WdVals, c \in ClipVals, cw \in ClipVals }

\* ------------------------------------------------------------------ state
VARIABLES
  attrs,   \* the node's parsed hyperparameters
  dispatch, \* the entry point the node is run with: FCompute or FComputeEx
  bind,    \* the node's output binding: write mode req, output aliasing the weight or not
  mem,     \* tensor name -> tensor
  init,    \* mem of the initial state
  pre,     \* mem at entry of the last call (the call's gradient installed)
  calls,   \* the calls made so far: entry point and how each ended
  launch   \* the kernel launch in progress: its kernel and the work items already run

vars == <<attrs, dispatch, bind, mem, init, pre, calls, launch>>

Names == {"weight", "grad", "out", "mom", "mean", "var", "state_n", "state_g", "delta", "weight16", "out16", "weight32", "mom32"}

\* write mode and output of a call: the output is the weight itself or a tensor of its own
Bindings ==
  { [req |-> kWriteInplace, inplace |-> TRUE], [req |-> kWriteTo, inplace |-> TRUE],
    [req |-> kWriteTo, inplace |-> FALSE], [req |-> kAddTo, inplace |-> FALSE],
    [req |-> kNullOp, inplace |-> FALSE] }

Out(weight) == IF bind.inplace THEN weight ELSE IF weight = "weight16" THEN "out16" ELSE "out"

\* initial tensor contents: small values, or values around the end of the
\* range in which half precision holds every integer
SmallVals == [i \in 0..(Size - 1) |-> i - 1]
LargeVals == [i \in 0..(Size - 1) |-> 2046 + i]
StateVals == [i \in 0..(Size - 1) |-> i + 1]

DenseMem(w, w16, s) ==
  [n \in Names |->
     CASE n = "weight" -> DenseTensor(w)
       [] n = "weight32" -> DenseTensor(w)
       [] n = "weight16" -> DenseTensor(w16)
       [] n = "grad" -> DenseTensor(Zeros(Size))
       [] n = "out" -> DenseTensor([i \in 0..(Size - 1) |-> 5])
       [] n = "out16" -> DenseTensor([i \in 0..(Size - 1) |-> 5])
       [] n = "state_n" -> DenseTensor([i \in 0..(Size - 1) |-> s[i] * s[i] + 3 * s[0]])
       [] OTHER -> DenseTensor(s)]

DenseInits ==
  { DenseMem(SmallVals, [i \in 0..(Size - 1) |-> CastHalf(SmallVals[i])], Zeros(Size)),
    DenseMem(LargeVals, [i \in 0..(Size - 1) |-> 7 - i], StateVals) }

\* gradients of a dense call: all zero; every entry different, of both signs;
\* one row partly zero and the other rows zero
DenseGrads ==
  { Zeros(Size),
    [i \in 0..(Size - 1) |-> 2 - i],
    [i \in 0..(Size - 1) |-> IF i = 0 THEN -2 ELSE 0] }

\* what is kept of a call: its entry point, whether its gradient was all zero,
\* and how it ended
Outcome(op, m0, r) ==
  [op |-> op, zero_grad |-> \A i \in DOMAIN m0["grad"].data : m0["grad"].data[i] = 0,
   status |-> r.status, kernel |-> r.kernel, error |-> r.error, driver |-> r.driver]

\* the function the executor attached to the node: the dense entry point
\* (FCompute) or the mixed-storage one (FComputeEx)
\* no kernel launch is being followed work item by work item
NoLaunch == [kernel |-> "none", done |-> {}]

FCompute == dispatch = "FCompute"
FComputeEx == dispatch = "FComputeEx"

\* a call of an entry point: r is what it returns when run on m0
Finish(op, m0, r) ==
  /\ mem' = r.mem
  /\ pre' = m0
  /\ calls' = Append(calls, Outcome(op, m0, r))
  /\ UNCHANGED <<attrs, dispatch, bind, init, launch>>

WithGrad(g) == [mem EXCEPT !["grad"] = g]

InitDense(P) ==
  /\ attrs \in P
  /\ dispatch = "FCompute"
  /\ bind \in Bindings
  /\ mem \in DenseInits
  /\ init = mem
  /\ pre = mem
  /\ calls = <<>>
  /\ launch = NoLaunch

\* ------------------------------------------------- dense entry points
SGDUpdateCall ==
  /\ Len(calls) < MaxCalls
  /\ FCompute
  /\ attrs.type = "SGDParam"
  /\ \E g \in DenseGrads :
       LET m0 == WithGrad(DenseTensor(g))
       IN  Finish("SGDUpdate", m0, SGDUpdate(m0, attrs, "weight", "grad", bind.req, Out("weight")))

MP_SGDUpdateCall ==
  /\ Len(calls) < MaxCalls
  /\ FCompute
  /\ attrs.type = "SGDParam"
  /\ \E g \in DenseGrads :
       LET m0 == WithGrad(DenseTensor(g))
       IN  Finish("MP_SGDUpdate", m0, MP_SGDUpdate(m0, attrs, "weight16", "grad", "weight32", bind.req, Out("weight16")))

SGDMomUpdateCall ==
  /\ Len(calls) < MaxCalls
  /\ FCompute
  /\ attrs.type = "SGDMomParam"
  /\ \E g \in DenseGrads :
       LET m0 == WithGrad(DenseTensor(g))
       IN  Finish("SGDMomUpdate", m0, SGDMomUpdate(m0, attrs, "weight", "grad", "mom", bind.req, Out("weight")))

MP_SGDMomUpdateCall ==
  /\ Len(calls) < MaxCalls
  /\ FCompute
  /\ attrs.type = "SGDMomParam"
  /\ \E g \in DenseGrads :
       LET m0 == WithGrad(DenseTensor(g))
       IN  Finish("MP_SGDMomUpdate", m0, MP_SGDMomUpdate(m0, attrs, "weight16", "grad", "mom32", "weight32", bind.req, Out("weight16")))

AdamUpdateCall ==
  /\ Len(calls) < MaxCalls
  /\ FCompute
  /\ attrs.type = "AdamParam"
  /\ \E g \in DenseGrads :
       LET m0 == WithGrad(DenseTensor(g))
       IN  Finish("AdamUpdate", m0, AdamUpdate(m0, attrs, "weight", "grad", "mean", "var", bind.req, Out("weight")))

RMSPropUpdateCall ==
  /\ Len(calls) < MaxCalls
  /\ FCompute
  /\ attrs.type = "RMSPropParam"
  /\ \E g \in DenseGrads :
       LET m0 == WithGrad(DenseTensor(g))
       IN  Finish("RMSPropUpdate", m0, RMSPropUpdate(m0, attrs, "weight", "grad", "state_n", bind.req, Out("weight")))

RMSPropAlexUpdateCall ==
  /\ Len(calls) < MaxCalls
  /\ FCompute
  /\ attrs.type = "RMSPropAlexParam"
  /\ \E g \in DenseGrads :
       LET m0 == WithGrad(DenseTensor(g))
       IN  Finish("RMSPropAlexUpdate", m0, RMSPropAlexUpdate(m0, attrs, "weight", "grad", "state_n", "state_g", "delta", bind.req, Out("weight")))

NextDense ==
  \/ SGDUpdateCall
  \/ MP_SGDUpdateCall
  \/ SGDMomUpdateCall
  \/ MP_SGDMomUpdateCall
  \/ AdamUpdateCall
  \/ RMSPropUpdateCall
  \/ RMSPropAlexUpdateCall

SpecDense == InitDense(SGDParams \cup SGDMomParams \cup AdamParams \cup RMSPropParams \cup RMSPropAlexParams) /\ [][NextDense]_vars

\* --------------------------------------------- mixed-storage entry points
RowOf(t, r) == CHOOSE k \in DOMAIN t.idx : t.idx[k] = r
HasRow(t, r) == \E k \in DOMAIN t.idx : t.idx[k] = r

\* a row-sparse tensor as a dense one: the rows it does not list are zero
Densify(t) ==
  IF t.stype = kRowSparseStorage
  THEN DenseTensor([i \in 0..(Size - 1) |->
         IF HasRow(t, i \div RowLen) THEN t.data[RowOf(t, i \div RowLen) * RowLen + (i % RowLen)] ELSE 0])
  ELSE t

\* a dense tensor as a row-sparse one: the rows that hold a non-zero value
RECURSIVE RowsFrom(_, _)
RowsFrom(d, r) ==
  IF r >= NumRows THEN <<>>
  ELSE IF \E j \in 0..(RowLen - 1) : d[r * RowLen + j] # 0 THEN <<r>> \o RowsFrom(d, r + 1)
  ELSE RowsFrom(d, r + 1)

Sparsify(d) ==
  LET rows == RowsFrom(d, 0)
  IN  RspTensor([k \in 0..(Len(rows) - 1) |-> rows[k + 1]],
                [i \in 0..(Len(rows) * RowLen - 1) |-> d[rows[(i \div RowLen) + 1] * RowLen + (i % RowLen)]])

\* the tensor n after a fallback call: a dense tensor was worked on in place, a
\* row-sparse one listed in written receives the result of its dense temporary
AfterFallback(m, done, n, written) ==
  IF m[n].stype = kDefaultStorage THEN done[n]
  ELSE IF n \in written THEN Sparsify(done[n].data)
  ELSE m[n]

\* FCompExFallback(attrs, ctx, inputs, req, outputs, SGDUpdate, "SGDUpdate")
FCompExFallbackSGDUpdate(m, param, req, out) ==
  LET tmp == [n \in DOMAIN m |-> IF n \in {"weight", "grad", out} THEN Densify(m[n]) ELSE m[n]]
      r == SGDUpdate(tmp, param, "weight", "grad", req, out)
  IN  [r EXCEPT !.mem = [n \in DOMAIN m |-> AfterFallback(m, r.mem, n, {out})],
                !.driver = "FCompExFallback"]

\* FCompExFallback(attrs, ctx, inputs, req, outputs, SGDMomUpdate, "SGDMomUpdate", {2})
FCompExFallbackSGDMomUpdate(m, param, req, out) ==
  LET tmp == [n \in DOMAIN m |-> IF n \in {"weight", "grad", "mom", out} THEN Densify(m[n]) ELSE m[n]]
      r == SGDMomUpdate(tmp, param, "weight", "grad", "mom", req, out)
  IN  [r EXCEPT !.mem = [n \in DOMAIN m |-> AfterFallback(m, r.mem, n, {out, "mom"})],
                !.driver = "FCompExFallback"]

Via(driver, r) == [r EXCEPT !.driver = driver]

\* SGDUpdateEx handing a dense weight with a row-sparse gradient to the
\* DnsRsp driver
SGDUpdateEx_DnsRsp(m, param, req, out) ==
  LET weight_stype == m["weight"].stype
      grad_stype == m["grad"].stype
  IN  IF weight_stype = kRowSparseStorage /\ grad_stype = kRowSparseStorage
      THEN Via("SGDUpdateRspRspImpl", SGDUpdateRspRspImpl(m, param, "weight", "grad", req, out))
      ELSE IF weight_stype = kRowSparseStorage /\ grad_stype = kDefaultStorage
      THEN Via("SGDUpdateRspDnsImpl", SGDUpdateRspDnsImpl(m, param, "weight", "grad", req, out))
      ELSE IF weight_stype = kDefaultStorage /\ grad_stype = kRowSparseStorage
      THEN Via("SGDUpdateDnsRspImpl", SGDUpdateDnsRspImpl(m, param, "weight", "grad", req, out))
      ELSE FCompExFallbackSGDUpdate(m, param, req, out)

\* inputs = <<weight, grad>>, outputs = <<out>>
SGDUpdateEx(m, param, req, out) ==
  LET weight_stype == m["weight"].stype
      grad_stype == m["grad"].stype
  IN  IF weight_stype = kRowSparseStorage /\ grad_stype = kRowSparseStorage
      THEN Via("SGDUpdateRspRspImpl", SGDUpdateRspRspImpl(m, param, "weight", "grad", req, out))
      ELSE IF weight_stype = kRowSparseStorage /\ grad_stype = kDefaultStorage
      THEN Via("SGDUpdateRspDnsImpl", SGDUpdateRspDnsImpl(m, param, "weight", "grad", req, out))
      ELSE FCompExFallbackSGDUpdate(m, param, req, out)

\* SGDMomUpdateEx without the check of the momentum's storage kind
SGDMomUpdateEx_NoKindCheck(m, param, req, out) ==
  LET weight_stype == m["weight"].stype
      grad_stype == m["grad"].stype
      mom_stype == m["mom"].stype
  IN  IF weight_stype = kRowSparseStorage /\ grad_stype = kRowSparseStorage /\ mom_stype = kRowSparseStorage
      THEN Via("SGDMomUpdateRspRspRspImpl", SGDMomUpdateRspRspRspImpl(m, param, "weight", "grad", "mom", req, out))
      ELSE IF weight_stype = kRowSparseStorage /\ grad_stype = kDefaultStorage /\ mom_stype = kRowSparseStorage
      THEN Via("SGDMomUpdateRspDnsImpl", SGDMomUpdateRspDnsImpl(m, param, "weight", "grad", "mom", req, out))
      ELSE FCompExFallbackSGDMomUpdate(m, param, req, out)

\* inputs = <<weight, grad, mom>>, outputs = <<out>>
SGDMomUpdateEx(m, param, req, out) ==
  LET weight_stype == m["weight"].stype
      grad_stype == m["grad"].stype
      mom_stype == m["mom"].stype
  IN  IF weight_stype # mom_stype THEN Fatal(m, "CHECK_EQ weight_stype mom_stype")
      ELSE IF weight_stype = kRowSparseStorage /\ grad_stype = kRowSparseStorage /\ mom_stype = kRowSparseStorage
      THEN Via("SGDMomUpdateRspRspRspImpl", SGDMomUpdateRspRspRspImpl(m, param, "weight", "grad", "mom", req, out))
      ELSE IF weight_stype = kRowSparseStorage /\ grad_stype = kDefaultStorage /\ mom_stype = kRowSparseStorage
      THEN Via("SGDMomUpdateRspDnsImpl", SGDMomUpdateRspDnsImpl(m, param, "weight", "grad", "mom", req, out))
      ELSE FCompExFallbackSGDMomUpdate(m, param, req, out)

\* AdamUpdateEx handing the storage kinds it has no driver for to the row
\* kernel's driver instead of failing
AdamUpdateEx_NoFatal(m, param, req, out) ==
  LET weight_stype == m["weight"].stype
      mean_stype == m["mean"].stype
      var_stype == m["var"].stype
  IN  IF mean_stype # weight_stype THEN Fatal(m, "CHECK_EQ mean_stype weight_stype")
      ELSE IF var_stype # weight_stype THEN Fatal(m, "CHECK_EQ var_stype weight_stype")
      ELSE IF weight_stype = kRowSparseStorage
      THEN Via("AdamUpdateRspRspRspImpl", AdamUpdateRspRspRspImpl(m, param, "weight", "grad", "mean", "var", req, out))
      ELSE Via("AdamUpdateDnsRspDnsImpl", AdamUpdateDnsRspDnsImpl(m, param, "weight", "grad", "mean", "var", req, out))

\* inputs = <<weight, grad, mean, var>>, outputs = <<out>>
AdamUpdateEx(m, param, req, out) ==
  LET weight_stype == m["weight"].stype
      grad_stype == m["grad"].stype
      mean_stype == m["mean"].stype
      var_stype == m["var"].stype
      out_stype == m[out].stype
  IN  IF mean_stype # weight_stype THEN Fatal(m, "CHECK_EQ mean_stype weight_stype")
      ELSE IF var_stype # weight_stype THEN Fatal(m, "CHECK_EQ var_stype weight_stype")
      ELSE IF weight_stype = kRowSparseStorage /\ mean_stype = kRowSparseStorage
              /\ var_stype = kRowSparseStorage /\ grad_stype = kRowSparseStorage
              /\ out_stype = kRowSparseStorage
      THEN Via("AdamUpdateRspRspRspImpl", AdamUpdateRspRspRspImpl(m, param, "weight", "grad", "mean", "var", req, out))
      ELSE Fatal(m, "LOG(FATAL) Unexpected storage types")

\* ------------------------------------------- mixed-storage calls: state
\* a tensor of values d stored densely ("dns"), row-sparse with every row
\* ("rsp"), row-sparse with the last row only ("part"), or row-sparse and not
\* yet initialized ("uninit")
TensorOf(kind, d) ==
  CASE kind = "dns" -> DenseTensor(d)
    [] kind = "rsp" -> RspTensor(AllRows, d)
    [] kind = "part" -> RspTensor([k \in {0} |-> NumRows - 1], [i \in 0..(RowLen - 1) |-> d[(NumRows - 1) * RowLen + i]])
    [] kind = "uninit" -> RspTensor(NoRows, [i \in {} |-> 0])

Storage(w, mo, me, va, o) == [weight |-> w, mom |-> mo, mean |-> me, var |-> va, out |-> o]

\* the storage kinds of weight, state and output a node of each rule is run with
StorageConfigs(type) ==
  CASE type = "SGDParam" ->
         { Storage("dns", "dns", "dns", "dns", "dns"), Storage("rsp", "dns", "dns", "dns", "rsp"),
           Storage("part", "dns", "dns", "dns", "part") }
    [] type = "SGDMomParam" ->
         { Storage("dns", "dns", "dns", "dns", "dns"), Storage("dns", "rsp", "dns", "dns", "dns"),
           Storage("rsp", "rsp", "dns", "dns", "rsp"), Storage("rsp", "uninit", "dns", "dns", "rsp"),
           Storage("rsp", "dns", "dns", "dns", "rsp"), Storage("part", "rsp", "dns", "dns", "part") }
    [] type = "AdamParam" ->
         { Storage("dns", "dns", "dns", "dns", "dns"), Storage("dns", "dns", "rsp", "dns", "dns"),
           Storage("rsp", "dns", "rsp", "rsp", "rsp"), Storage("rsp", "dns", "uninit", "uninit", "rsp"),
           Storage("rsp", "dns", "rsp", "uninit", "rsp"), Storage("rsp", "dns", "dns", "rsp", "rsp"),
           Storage("rsp", "dns", "rsp", "dns", "rsp"), Storage("rsp", "dns", "rsp", "rsp", "dns"),
           Storage("part", "dns", "rsp", "rsp", "part") }

SparseMem(st) ==
  [n \in Names |->
     CASE n = "weight" -> TensorOf(st.weight, SmallVals)
       [] n = "out" -> TensorOf(st.out, [i \in 0..(Size - 1) |-> 5])
       [] n = "mom" -> TensorOf(st.mom, StateVals)
       [] n = "mean" -> TensorOf(st.mean, StateVals)
       [] n = "var" -> TensorOf(st.var, StateVals)
       [] n = "grad" -> DenseTensor(Zeros(Size))
       [] OTHER -> DenseTensor(Zeros(Size))]

\* hyperparameters of the mixed-storage runs
SparseParams ==
  { p \in SGDParams \cup SGDMomParams \cup AdamParams :
      /\ p.lr = 2
      /\ p.type = "SGDParam" => p.rescale_grad = 1
      /\ p.type = "SGDMomParam" => p.rescale_grad = 1 /\ p.momentum = 2
      /\ p.type = "AdamParam" => p.beta1 = 2 }

\* row-sparse gradients: no row (not initialized), the first row, the last
\* row, every row; the values are above, within and below the clip range
RowSets == { NoRows, [k \in {0} |-> 0], [k \in {0} |-> NumRows - 1], AllRows }
RspGrad(ix) == RspTensor(ix, [i \in 0..(Len0(ix) * RowLen - 1) |-> 2 - 2 * i])

SparseGrads == { DenseTensor(g) : g \in DenseGrads } \cup { RspGrad(ix) : ix \in RowSets }

InitSparse ==
  /\ attrs \in SparseParams
  /\ dispatch = "FComputeEx"
  /\ bind \in Bindings
  /\ \E st \in StorageConfigs(attrs.type) : mem = SparseMem(st)
  /\ init = mem
  /\ pre = mem
  /\ calls = <<>>
  /\ launch = NoLaunch

SGDUpdateExCall ==
  /\ Len(calls) < MaxCalls
  /\ FComputeEx
  /\ attrs.type = "SGDParam"
  /\ \E g \in SparseGrads :
       LET m0 == WithGrad(g)
       IN  Finish("SGDUpdateEx", m0, SGDUpdateEx(m0, attrs, bind.req, Out("weight")))

SGDMomUpdateExCall ==
  /\ Len(calls) < MaxCalls
  /\ FComputeEx
  /\ attrs.type = "SGDMomParam"
  /\ \E g \in SparseGrads :
       LET m0 == WithGrad(g)
       IN  Finish("SGDMomUpdateEx", m0, SGDMomUpdateEx(m0, attrs, bind.req, Out("weight")))

AdamUpdateExCall ==
  /\ Len(calls) < MaxCalls
  /\ FComputeEx
  /\ attrs.type = "AdamParam"
  /\ \E g \in SparseGrads :
       LET m0 == WithGrad(g)
       IN  Finish("AdamUpdateEx", m0, AdamUpdateEx(m0, attrs, bind.req, Out("weight")))

NextSparse ==
  \/ SGDUpdateExCall
  \/ SGDMomUpdateExCall
  \/ AdamUpdateExCall

SpecSparse == InitSparse /\ [][NextSparse]_vars

\* ------------------------------------------------------ whole program
Init ==
  \/ InitDense(SGDParams \cup SGDMomParams \cup AdamParams \cup RMSPropParams \cup RMSPropAlexParams)
  \/ InitSparse

Next ==
  \/ SGDUpdateCall
  \/ MP_SGDUpdateCall
  \/ SGDMomUpdateCall
  \/ MP_SGDMomUpdateCall
  \/ AdamUpdateCall
  \/ RMSPropUpdateCall
  \/ RMSPropAlexUpdateCall
  \/ SGDUpdateExCall
  \/ SGDMomUpdateExCall
  \/ AdamUpdateExCall

Spec == Init /\ [][Next]_vars

\* ------------------------------- a full-precision and a mixed-precision
\* run side by side: each round is one SGDUpdate call on weight followed by
\* one MP_SGDUpdate call on weight32, same node attributes
LockstepGrads == { Zeros(Size), [i \in 0..(Size - 1) |-> 2 - i] }

LockstepSGDUpdateCall ==
  /\ Len(calls) < 2 * MaxCalls
  /\ Len(calls) % 2 = 0
  /\ FCompute
  /\ \E g \in LockstepGrads :
       LET m0 == WithGrad(DenseTensor(g))
       IN  Finish("SGDUpdate", m0, SGDUpdate(m0, attrs, "weight", "grad", bind.req, Out("weight")))

LockstepMP_SGDUpdateCall ==
  /\ Len(calls) < 2 * MaxCalls
  /\ Len(calls) % 2 = 1
  /\ FCompute
  /\ \E g \in LockstepGrads :
       LET m0 == WithGrad(DenseTensor(g))
       IN  Finish("MP_SGDUpdate", m0, MP_SGDUpdate(m0, attrs, "weight16", "grad", "weight32", bind.req, Out("weight16")))

NextLockstep ==
  \/ LockstepSGDUpdateCall
  \/ LockstepMP_SGDUpdateCall

SpecLockstep == InitDense(SGDParams) /\ [][NextLockstep]_vars

\* ------------------------------- one kernel launch, work item by work item
\* Kernel<OP, xpu>::Launch(s, N, args...) runs OP::Map(i, args...) once for
\* every i in 0..N-1, on parallel lanes and in no fixed order.  A behaviour
\* of SpecLaunch is one launch: pre is the memory at the launch, launch.done
\* the work items that have run, mem the memory they left.
LaunchKernels(type) ==
  CASE type = "SGDParam" -> {"SGDKernel", "SGDDnsRspKernel", "SGDRspDnsKernel"}
    [] type = "SGDMomParam" -> {"SGDMomKernel", "SGDMomDnsRspDnsKernel", "SGDMomRspDnsKernel"}
    [] type = "AdamParam" -> {"AdamDnsRspDnsKernel"}

\* the dense entry points launch under every write mode, the sparse drivers
\* only in place
LaunchBindings(kernel) ==
  IF kernel \in {"SGDKernel", "SGDMomKernel"}
  THEN { b \in Bindings : b.req \in {kWriteInplace, kAddTo} \/ ~b.inplace }
  ELSE { [req |-> kWriteInplace, inplace |-> TRUE] }

\* the tensors at the launch: dense for the dense kernels, weight and state
\* row-sparse with every row for the row kernels
LaunchMem(kernel) ==
  IF kernel \in {"SGDKernel", "SGDMomKernel"}
  THEN DenseMem(SmallVals, SmallVals, StateVals)
  ELSE SparseMem(Storage("rsp", "rsp", "rsp", "rsp", "rsp"))

\* the gradient at the launch: row-sparse and initialized for the DnsRspDns
\* kernels, dense otherwise (with zero rows for the RspDns kernels, which
\* test for them)
LaunchGrads(kernel) ==
  CASE kernel \in {"SGDDnsRspKernel", "SGDMomDnsRspDnsKernel", "AdamDnsRspDnsKernel"} -> { RspGrad(ix) : ix \in RowSets \ {NoRows} }
    [] kernel \in {"SGDRspDnsKernel", "SGDMomRspDnsKernel"} -> { DenseTensor(g) : g \in DenseGrads }
    [] kernel \in {"SGDKernel", "SGDMomKernel"} -> { DenseTensor([i \in 0..(Size - 1) |-> 2 - i]) }

InitLaunch ==
  /\ attrs \in SparseParams
  /\ dispatch = "Launch"
  /\ \E k \in LaunchKernels(attrs.type) : launch = [kernel |-> k, done |-> {}]
  /\ bind \in LaunchBindings(launch.kernel)
  /\ \E g \in LaunchGrads(launch.kernel) : mem = [LaunchMem(launch.kernel) EXCEPT !["grad"] = g]
  /\ init = mem
  /\ pre = mem
  /\ calls = <<>>

\* the range 0..N-1 handed to Launch: weight.shape_.Size(), the number of
\* gradient rows, the number of weight rows
WorkItems ==
  CASE launch.kernel \in {"SGDKernel", "SGDMomKernel"} -> 0..(Len0(pre["weight"].data) - 1)
    [] launch.kernel \in {"SGDDnsRspKernel", "SGDMomDnsRspDnsKernel", "AdamDnsRspDnsKernel"} -> 0..(Len0(pre["grad"].idx) - 1)
    [] launch.kernel \in {"SGDRspDnsKernel", "SGDMomRspDnsKernel"} -> 0..(Len0(pre["weight"].idx) - 1)

\* OP::Map(i, args...) of the launched kernel, with the arguments its driver
\* passes, run on memory m
Map(m, i) ==
  CASE launch.kernel = "SGDKernel" ->
         SGDKernel(m, i, Out("weight"), "weight", "grad", attrs.clip_gradient, attrs.lr, attrs.wd, attrs.rescale_grad, bind.req)
    [] launch.kernel = "SGDDnsRspKernel" ->
         SGDDnsRspKernel(m, i, RowLen, Out("weight"), "weight", "grad", attrs.clip_gradient, attrs.lr, attrs.wd, attrs.rescale_grad, ReqType(bind.req))
    [] launch.kernel = "SGDRspDnsKernel" ->
         SGDRspDnsKernel(m, i, RowLen, Out("weight"), "weight", "grad", attrs.clip_gradient, attrs.lr, attrs.wd, attrs.rescale_grad, ReqType(bind.req))
    [] launch.kernel = "SGDMomKernel" ->
         SGDMomKernel(m, i, Out("weight"), "mom", "weight", "grad", attrs.clip_gradient, attrs.momentum, attrs.lr, attrs.wd, attrs.rescale_grad, bind.req)
    [] launch.kernel = "SGDMomDnsRspDnsKernel" ->
         SGDMomDnsRspDnsKernel(m, i, RowLen, Out("weight"), "mom", "weight", "grad", attrs.clip_gradient, attrs.momentum, attrs.lr, attrs.wd, attrs.rescale_grad, ReqType(bind.req))
    [] launch.kernel = "SGDMomRspDnsKernel" ->
         SGDMomRspDnsKernel(m, i, RowLen, Out("weight"), "mom", "weight", "grad", attrs.clip_gradient, attrs.momentum, attrs.lr, attrs.wd, attrs.rescale_grad, ReqType(bind.req))
    [] launch.kernel = "AdamDnsRspDnsKernel" ->
         AdamDnsRspDnsKernel(m, i, RowLen, Out("weight"), "mean", "var", "weight", "grad", attrs.clip_gradient, attrs.beta1, attrs.beta2, attrs.lr, attrs.wd, attrs.epsilon, attrs.rescale_grad, ReqType(bind.req))

\* a lane runs work item i, which has not run yet
RunItem(i) ==
  /\ dispatch = "Launch"
  /\ i \in WorkItems \ launch.done
  /\ mem' = Map(mem, i)
  /\ launch' = [launch EXCEPT !.done = @ \cup {i}]
  /\ UNCHANGED <<attrs, dispatch, bind, init, pre, calls>>

SGDKernelMap == launch.kernel = "SGDKernel" /\ \E i \in WorkItems : RunItem(i)
SGDDnsRspKernelMap == launch.kernel = "SGDDnsRspKernel" /\ \E i \in WorkItems : RunItem(i)
SGDRspDnsKernelMap == launch.kernel = "SGDRspDnsKernel" /\ \E i \in WorkItems : RunItem(i)
SGDMomKernelMap == launch.kernel = "SGDMomKernel" /\ \E i \in WorkItems : RunItem(i)
SGDMomDnsRspDnsKernelMap == launch.kernel = "SGDMomDnsRspDnsKernel" /\ \E i \in WorkItems : RunItem(i)
SGDMomRspDnsKernelMap == launch.kernel = "SGDMomRspDnsKernel" /\ \E i \in WorkItems : RunItem(i)
AdamDnsRspDnsKernelMap == launch.kernel = "AdamDnsRspDnsKernel" /\ \E i \in WorkItems : RunItem(i)

NextLaunch ==
  \/ SGDKernelMap
  \/ SGDDnsRspKernelMap
  \/ SGDRspDnsKernelMap
  \/ SGDMomKernelMap
  \/ SGDMomDnsRspDnsKernelMap
  \/ SGDMomRspDnsKernelMap
  \/ AdamDnsRspDnsKernelMap

SpecLaunch == InitLaunch /\ [][NextLaunch]_vars

\* the elements work item i of the launched kernel stores to and loads from,
\* as <<tensor, index into its value array>>: index i for a dense kernel,
\* grad_idx[i]*row_length + j in weight, state and output and i*row_length + j
\* in the gradient for a DnsRspDns kernel, i*num_cols + j for an RspDns kernel
RowElems(row) == { row * RowLen + j : j \in 0..(RowLen - 1) }

ItemElems(i) ==
  CASE launch.kernel \in {"SGDKernel", "SGDMomKernel"} -> {i}
    [] launch.kernel \in {"SGDDnsRspKernel", "SGDMomDnsRspDnsKernel", "AdamDnsRspDnsKernel"} -> RowElems(pre["grad"].idx[i])
    [] launch.kernel \in {"SGDRspDnsKernel", "SGDMomRspDnsKernel"} -> RowElems(i)

GradElems(i) == IF launch.kernel \in {"SGDKernel", "SGDMomKernel"} THEN {i} ELSE RowElems(i)

StoredTensors ==
  CASE launch.kernel \in {"SGDKernel", "SGDDnsRspKernel", "SGDRspDnsKernel"} -> {Out("weight")}
    [] launch.kernel \in {"SGDMomKernel", "SGDMomDnsRspDnsKernel", "SGDMomRspDnsKernel"} -> {Out("weight"), "mom"}
    [] launch.kernel = "AdamDnsRspDnsKernel" -> {Out("weight"), "mean", "var"}

Writes(i) == StoredTensors \X ItemElems(i)
Reads(i) == ((StoredTensors \cup {"weight"}) \X ItemElems(i)) \cup ({"grad"} \X GradElems(i))

\* -----------------------------------------------------------------
\* Properties.  Last is the call just made, pre the memory it started
\* from (its gradient installed), mem the memory it left.
\* -----------------------------------------------------------------
Called == Len(calls) > 0
Last == calls[Len(calls)]
Idx == 0..(Size - 1)
Overwrite == bind.req \in {kWriteTo, kWriteInplace}

\* the logical value array of tensor n in memory m: a row-sparse tensor reads
\* zero on the rows it does not list
Val(m, n) == Densify(m[n]).data

DnsRspDnsKernels == {"SGDDnsRspKernel", "SGDMomDnsRspDnsKernel", "AdamDnsRspDnsKernel"}
RspDnsKernels == {"SGDRspDnsKernel", "SGDMomRspDnsKernel"}
SGDKernels == {"SGDKernel", "SGDDnsRspKernel", "SGDRspDnsKernel"}
SGDMomKernels == {"SGDMomKernel", "SGDMomDnsRspDnsKernel", "SGDMomRspDnsKernel"}
AdamKernels == {"AdamUpdate", "AdamDnsRspDnsKernel"}

\* row r is listed by the gradient of the last call
GradLists(r) == HasRow(pre["grad"], r)

\* element i is one the last call worked on: every element for a dense kernel,
\* the listed rows for a DnsRspDns kernel, the rows whose gradient holds a
\* non-zero value for an RspDns kernel
Updated(i) ==
  CASE Last.status # "ok" -> FALSE
    [] Last.kernel \in DnsRspDnsKernels -> GradLists(i \div RowLen)
    [] Last.kernel \in RspDnsKernels -> \E j \in 0..(RowLen - 1) : Val(pre, "grad")[(i \div RowLen) * RowLen + j] # 0
    [] OTHER -> TRUE

\* tensor n received value v at element i under the call's write mode
Assigned(n, i, v) ==
  CASE bind.req = kNullOp -> Val(mem, n)[i] = Val(pre, n)[i]
    [] bind.req = kAddTo -> Val(mem, n)[i] = Val(pre, n)[i] + v
    [] OTHER -> Val(mem, n)[i] = v

\* C1: after a call that launched a DnsRspDns kernel (SGD, SGD momentum, Adam),
\* every element of every row the row-sparse gradient does not list has, in
\* the weight, the output and every state tensor (mom, mean, var), the value
\* it had before the call -- for every hyperparameter setting and after
\* every sequence of calls.
C1_LazyUpdate ==
  (Called /\ Last.kernel \in DnsRspDnsKernels) =>
    \A i \in Idx : ~GradLists(i \div RowLen) =>
      \A n \in {"weight", "out", "mom", "mean", "var"} : Val(mem, n)[i] = Val(pre, n)[i]

\* C1 witness: a second call in a row launched a DnsRspDns kernel with weight
\* decay on, changed the weight, and left out a row whose weight is not zero
C1_Witness ==
  /\ Len(calls) = 2
  /\ calls[1].kernel \in DnsRspDnsKernels
  /\ Last.kernel \in DnsRspDnsKernels
  /\ attrs.wd # 0
  /\ Val(mem, "weight") # Val(pre, "weight")
  /\ \E i \in Idx : ~GradLists(i \div RowLen) /\ Val(pre, "weight")[i] # 0


\* --------------------------------------------- the rules, as the spec states them
Min(a, b) == IF a < b THEN a ELSE b
Max(a, b) == IF a > b THEN a ELSE b

\* x clamped to [-c, c]
Clamp(x, c) == Max(-c, Min(x, c))

\* the clip sentinel: a bound c >= 0 clamps, a negative bound leaves x as it is
Sentinel(x, c) == IF c >= 0 THEN Clamp(x, c) ELSE x

\* the quantity the last call's rule clips, at element i: the rescaled
\* gradient (SGD, SGD momentum, mixed precision), or the rescaled gradient
\* plus the weight decay term (Adam, RMSProp)
Raw(i) ==
  IF attrs.type \in {"SGDParam", "SGDMomParam"}
  THEN attrs.rescale_grad * Val(pre, "grad")[i]
  ELSE attrs.rescale_grad * Val(pre, "grad")[i] + attrs.wd * Val(pre, "weight")[i]

Unclipped == [i \in Idx |-> Raw(i)]
EffectiveGradient == [i \in Idx |-> Sentinel(Raw(i), attrs.clip_gradient)]

NewWeightSGD(w, e) == (1 - attrs.lr * attrs.wd) * w - attrs.lr * e
NewMom(mom, w, e) == attrs.momentum * mom - attrs.lr * attrs.wd * w - attrs.lr * e
NewMean(mean, e) == attrs.beta1 * mean + (1 - attrs.beta1) * e
NewVar(var, e) == attrs.beta2 * var + (1 - attrs.beta2) * (e * e)
NewStateN(n, e) == (1 - attrs.gamma1) * (e * e) + attrs.gamma1 * n
NewStateG(g, e) == (1 - attrs.gamma1) * e + attrs.gamma1 * g
ClipWeights(w) == IF attrs.clip_weights >= 0 THEN Clamp(w, attrs.clip_weights) ELSE w

\* C2: dense SGD (SGDUpdate) with an overwriting write mode sets every
\* out[i] to (1 - lr*wd) * weight[i] - lr * effective_gradient[i], the
\* effective gradient being rescale_grad * grad[i] clamped to
\* [-clip_gradient, clip_gradient] when clipping is on; with
\* clip_gradient < 0 and wd = 0 it is exactly weight[i] - lr*rescale_grad*grad[i].
C2_DenseSGD ==
  (Called /\ Last.op = "SGDUpdate" /\ Overwrite) =>
    \A i \in Idx :
      LET w == pre["weight"].data[i]
          g == pre["grad"].data[i]
          e == IF attrs.clip_gradient >= 0
               THEN Max(-attrs.clip_gradient, Min(attrs.rescale_grad * g, attrs.clip_gradient))
               ELSE attrs.rescale_grad * g
      IN  /\ mem[Out("weight")].data[i] = (1 - attrs.lr * attrs.wd) * w - attrs.lr * e
          /\ (attrs.clip_gradient < 0 /\ attrs.wd = 0) =>
               mem[Out("weight")].data[i] = w - attrs.lr * attrs.rescale_grad * g

\* C2 witness: an in-place SGDUpdate with weight decay, a rescaled gradient and
\* a clip bound that cuts some gradient entries and not others
C2_Witness ==
  /\ Called /\ Last.op = "SGDUpdate" /\ Overwrite /\ bind.inplace
  /\ attrs.wd = 1 /\ attrs.lr = 2 /\ attrs.rescale_grad = 2 /\ attrs.clip_gradient = 1
  /\ \E i \in Idx : Abs(attrs.rescale_grad * pre["grad"].data[i]) > attrs.clip_gradient
  /\ \E i \in Idx : pre["grad"].data[i] = 0 /\ pre["weight"].data[i] # 0
  /\ mem["weight"].data # pre["weight"].data


\* the last call's results are those of its rule computed, at every element
\* it worked on, from the pre-call values with e[i] as the gradient term:
\* the state tensors hold the new state, the output received the new weight
RuleHolds(e) ==
  \A i \in Idx : Updated(i) =>
    CASE Last.kernel \in SGDKernels ->
           Assigned(Out("weight"), i, NewWeightSGD(Val(pre, "weight")[i], e[i]))
      [] Last.kernel \in SGDMomKernels ->
           LET mom == NewMom(Val(pre, "mom")[i], Val(pre, "weight")[i], e[i])
           IN  /\ Val(mem, "mom")[i] = mom
               /\ Assigned(Out("weight"), i, Val(pre, "weight")[i] + mom)
      [] Last.kernel = "MP_SGDKernel" ->
           LET w == NewWeightSGD(Val(pre, "weight32")[i], e[i])
           IN  /\ Val(mem, "weight32")[i] = w
               /\ Assigned(Out("weight16"), i, CastHalf(w))
      [] Last.kernel = "MP_SGDMomKernel" ->
           LET mom == NewMom(Val(pre, "mom32")[i], Val(pre, "weight32")[i], e[i])
           IN  /\ Val(mem, "mom32")[i] = mom
               /\ Val(mem, "weight32")[i] = Val(pre, "weight32")[i] + mom
               /\ Assigned(Out("weight16"), i, CastHalf(Val(pre, "weight32")[i] + mom))
      [] Last.kernel \in AdamKernels ->
           LET mean == NewMean(Val(pre, "mean")[i], e[i])
               var == NewVar(Val(pre, "var")[i], e[i])
           IN  /\ Val(mem, "mean")[i] = mean
               /\ Val(mem, "var")[i] = var
               /\ Assigned(Out("weight"), i,
                    Val(pre, "weight")[i] - Div(attrs.lr * mean, SquareRoot(var) + attrs.epsilon))
      [] Last.kernel = "RMSPropUpdate" ->
           LET n == NewStateN(Val(pre, "state_n")[i], e[i])
           IN  /\ Val(mem, "state_n")[i] = n
               /\ Assigned(Out("weight"), i,
                    ClipWeights(Val(pre, "weight")[i] - attrs.lr * Div(e[i], SquareRoot(n + attrs.epsilon))))
      [] Last.kernel = "RMSPropAlexUpdate" ->
           LET n == NewStateN(Val(pre, "state_n")[i], e[i])
               g == NewStateG(Val(pre, "state_g")[i], e[i])
               delta == attrs.gamma2 * Val(pre, "delta")[i]
                          - attrs.lr * Div(e[i], SquareRoot(n - g * g + attrs.epsilon))
           IN  /\ Val(mem, "state_n")[i] = n
               /\ Val(mem, "state_g")[i] = g
               /\ Val(mem, "delta")[i] = delta
               /\ Assigned(Out("weight"), i, ClipWeights(Val(pre, "weight")[i] + delta))

\* C3: SGD momentum, in the dense kernel and in both sparse kernels on the
\* elements they update: the momentum stored by the call is
\* momentum*mom - lr*wd*weight - lr*effective_gradient of the pre-call weight
\* and momentum, and the value given to the output is the pre-call weight
\* plus that new momentum -- also when the output is the weight tensor itself.
C3_Momentum ==
  (Called /\ Last.kernel \in SGDMomKernels) =>
    \A i \in Idx : Updated(i) =>
      LET w == Val(pre, "weight")[i]
          e == Sentinel(attrs.rescale_grad * Val(pre, "grad")[i], attrs.clip_gradient)
          mom == attrs.momentum * Val(pre, "mom")[i] - attrs.lr * attrs.wd * w - attrs.lr * e
      IN  /\ Val(mem, "mom")[i] = mom
          /\ Assigned(Out("weight"), i, w + mom)

\* C3 witness: a dense SGD momentum call written in place over the weight, with
\* momentum and weight decay on, that changed both the momentum and the weight
C3_Witness ==
  /\ Called /\ Last.kernel = "SGDMomKernel" /\ bind.inplace /\ Overwrite
  /\ attrs.momentum # 0 /\ attrs.wd # 0
  /\ \E i \in Idx : /\ Val(pre, "mom")[i] # 0
                     /\ Val(mem, "mom")[i] # Val(pre, "mom")[i]
                     /\ Val(mem, "mom")[i] # 0
                     /\ Val(mem, "weight")[i] # Val(pre, "weight")[i]

C5_NonPositiveClipIsOff ==
  (Called /\ Last.status = "ok" /\ attrs.clip_gradient <= 0) => RuleHolds(Unclipped)


\* C6: after any number of consecutive dense SGD calls (SGDUpdate) with
\* wd = 0 and an all-zero gradient, each written back over the weight, the
\* weight holds its initial value at every index, whatever lr, rescale_grad
\* and clip_gradient are.
C6_ZeroGradientIdempotent ==
  (/\ attrs.type = "SGDParam" /\ attrs.wd = 0
   /\ bind.inplace /\ Overwrite
   /\ \A k \in 1..Len(calls) : calls[k].op = "SGDUpdate" /\ calls[k].zero_grad) =>
    mem["weight"].data = init["weight"].data

\* C6 witness: MaxCalls such calls in a row on a weight that is not zero, with
\* lr = 2, a rescaled gradient and an active clip
C6_Witness ==
  /\ Len(calls) = MaxCalls
  /\ \A k \in 1..Len(calls) : calls[k].op = "SGDUpdate" /\ calls[k].zero_grad
  /\ attrs.type = "SGDParam" /\ attrs.wd = 0 /\ attrs.lr = 2
  /\ attrs.rescale_grad = 2 /\ attrs.clip_gradient = 0
  /\ bind.inplace /\ Overwrite
  /\ \E i \in Idx : init["weight"].data[i] > 2046

\* C7: in mixed-precision SGD and SGD momentum the master buffer weight32 is
\* the weight: its new value (and the new momentum) is computed from the
\* pre-call master value and never from the narrow weight input, it is stored
\* in the master buffer, and with an overwriting write mode the output is the
\* down-cast of the new master value: out[i] = cast(weight32[i]) after every call.
C7_MasterWeight ==
  (Called /\ Last.op \in {"MP_SGDUpdate", "MP_SGDMomUpdate"}) =>
    \A i \in Idx :
      LET w32 == pre["weight32"].data[i]
          e == Sentinel(attrs.rescale_grad * pre["grad"].data[i], attrs.clip_gradient)
          mom == attrs.momentum * pre["mom32"].data[i] - attrs.lr * attrs.wd * w32 - attrs.lr * e
      IN  /\ Last.op = "MP_SGDUpdate" =>
               mem["weight32"].data[i] = (1 - attrs.lr * attrs.wd) * w32 - attrs.lr * e
          /\ Last.op = "MP_SGDMomUpdate" =>
               mem["mom32"].data[i] = mom /\ mem["weight32"].data[i] = w32 + mom
          /\ Overwrite => mem[Out("weight16")].data[i] = CastHalf(mem["weight32"].data[i])

\* C7 witness: a mixed-precision momentum call whose narrow weight input was
\* not the down-cast of the master value, with a gradient that is not zero,
\* and whose new master value is not representable in half precision
C7_Witness ==
  /\ Called /\ Last.op = "MP_SGDMomUpdate" /\ Overwrite
  /\ ~Last.zero_grad
  /\ \E i \in Idx : pre["weight16"].data[i] # CastHalf(pre["weight32"].data[i])
  /\ \E i \in Idx : CastHalf(mem["weight32"].data[i]) # mem["weight32"].data[i]

\* C8: starting from a master buffer equal to the full-precision weight, after
\* N MP_SGDUpdate calls with a zero gradient the master buffer equals the
\* weight N SGDUpdate calls with the same hyperparameters and a zero gradient
\* produce, and the narrow output is the down-cast of that value, for every N.
C8_TracksFullPrecision ==
  (/\ Len(calls) % 2 = 0
   /\ bind.inplace /\ Overwrite
   /\ \A k \in 1..Len(calls) : calls[k].zero_grad) =>
    /\ mem["weight32"].data = mem["weight"].data
    /\ Called => \A i \in Idx : mem["weight16"].data[i] = CastHalf(mem["weight"].data[i])

\* C8 witness: MaxCalls rounds with weight decay on (lr*wd = 2: every call
\* negates the weight), ending on a weight that half precision cannot hold
C8_Witness ==
  /\ Len(calls) = 2 * MaxCalls
  /\ \A k \in 1..Len(calls) : calls[k].zero_grad
  /\ bind.inplace /\ Overwrite
  /\ attrs.wd = 1 /\ attrs.lr = 2
  /\ mem["weight32"].data # pre["weight32"].data
  /\ \E i \in Idx : mem["weight16"].data[i] # mem["weight"].data[i]


\* the last call was given a dense weight, dense state and a row-sparse gradient
DenseWeightSparseGrad ==
  /\ Called
  /\ pre["weight"].stype = kDefaultStorage
  /\ pre["grad"].stype = kRowSparseStorage
  /\ Last.op = "SGDMomUpdateEx" => pre["mom"].stype = kDefaultStorage
  /\ Last.op = "AdamUpdateEx" => pre["mean"].stype = kDefaultStorage /\ pre["var"].stype = kDefaultStorage

\* the last call ended in a fatal error before any kernel ran or any tensor changed
FailedUntouched == Last.status = "fatal" /\ Last.kernel = "none" /\ mem = pre

\* C9 (as stated): in SGDUpdateEx, SGDMomUpdateEx and AdamUpdateEx a call with
\* a dense weight, dense state and a row-sparse gradient (initialized, written
\* in place) is routed to the rule's DnsRspDns row kernel, not to the densify
\* fallback and not to a fatal error.
C9_RoutedToRowKernel ==
  (DenseWeightSparseGrad /\ StorageInitialized(pre["grad"]) /\ bind.req = kWriteInplace) =>
    /\ Last.kernel \in DnsRspDnsKernels
    /\ Last.driver # "FCompExFallback"
    /\ Last.status # "fatal"

\* C9 (amended): a call with a dense weight, dense state and a row-sparse
\* gradient is routed, in SGDUpdateEx and SGDMomUpdateEx, to the densify
\* fallback with the dense entry point, which updates every row with the
\* gradient read as zero on the rows it does not list, and in AdamUpdateEx to
\* the fatal unsupported-storage error; a DnsRspDns row kernel is launched
\* only when weight and state are row-sparse.
C9_RoutedToFallbackOrFatal ==
  /\ DenseWeightSparseGrad =>
       CASE Last.op = "SGDUpdateEx" ->
              /\ Last.status = "ok" /\ Last.driver = "FCompExFallback" /\ Last.kernel = "SGDKernel"
              /\ \A i \in Idx : Assigned(Out("weight"), i, NewWeightSGD(Val(pre, "weight")[i], EffectiveGradient[i]))
         [] Last.op = "SGDMomUpdateEx" ->
              /\ Last.status = "ok" /\ Last.driver = "FCompExFallback" /\ Last.kernel = "SGDMomKernel"
              /\ \A i \in Idx :
                   Val(mem, "mom")[i] = NewMom(Val(pre, "mom")[i], Val(pre, "weight")[i], EffectiveGradient[i])
         [] Last.op = "AdamUpdateEx" ->
              FailedUntouched /\ Last.error = "LOG(FATAL) Unexpected storage types"
  /\ (Called /\ Last.kernel \in DnsRspDnsKernels) =>
       /\ pre["weight"].stype = kRowSparseStorage
       /\ Last.op = "SGDMomUpdateEx" => pre["mom"].stype = kRowSparseStorage
       /\ Last.op = "AdamUpdateEx" => pre["mean"].stype = kRowSparseStorage /\ pre["var"].stype = kRowSparseStorage

\* C9 witness: an in-place SGDUpdateEx call with weight decay on a dense
\* weight, whose row-sparse gradient leaves out a row; the fallback changed
\* the weight on that row
C9_Witness ==
  /\ DenseWeightSparseGrad /\ Last.op = "SGDUpdateEx"
  /\ StorageInitialized(pre["grad"]) /\ bind.req = kWriteInplace
  /\ attrs.wd # 0
  /\ \E i \in Idx : ~GradLists(i \div RowLen) /\ Val(mem, "weight")[i] # Val(pre, "weight")[i]

\* the storage kinds of the last call are ones a sparse driver of its rule
\* takes: a row-sparse weight (SGD), with row-sparse state (SGD momentum), with
\* a row-sparse gradient and output as well (Adam)
SparseDriverHandles ==
  CASE Last.op = "SGDUpdateEx" -> pre["weight"].stype = kRowSparseStorage
    [] Last.op = "SGDMomUpdateEx" ->
         pre["weight"].stype = kRowSparseStorage /\ pre["mom"].stype = kRowSparseStorage
    [] Last.op = "AdamUpdateEx" ->
         \A n \in {"weight", "grad", "mean", "var", Out("weight")} : pre[n].stype = kRowSparseStorage

DelegatedToFallback == Last.status = "ok" /\ Last.driver = "FCompExFallback"

\* C10 (as stated): on every storage-kind combination that no sparse driver
\* of the rule handles, AdamUpdateEx ends in a fatal error without launching a
\* kernel, whereas SGDUpdateEx and SGDMomUpdateEx never fail and delegate the
\* call to the densify fallback with the dense entry point.
C10_Asymmetry ==
  (Called /\ ~SparseDriverHandles) =>
    IF Last.op = "AdamUpdateEx" THEN FailedUntouched ELSE DelegatedToFallback

\* C10 (amended): on every storage-kind combination that no sparse driver of
\* the rule handles, AdamUpdateEx ends in a fatal error without launching a
\* kernel; SGDUpdateEx always, and SGDMomUpdateEx when the momentum has the
\* weight's storage kind, delegate the call to the densify fallback with the
\* dense entry point and do not fail; SGDMomUpdateEx with a momentum of
\* another storage kind than the weight ends in a fatal error without
\* launching a kernel.
C10_AsymmetryGivenConsistentState ==
  (Called /\ ~SparseDriverHandles) =>
    CASE Last.op = "AdamUpdateEx" -> FailedUntouched
      [] Last.op = "SGDUpdateEx" -> DelegatedToFallback /\ Last.kernel = "SGDKernel"
      [] Last.op = "SGDMomUpdateEx" ->
           IF pre["mom"].stype = pre["weight"].stype
           THEN DelegatedToFallback /\ Last.kernel = "SGDMomKernel"
           ELSE FailedUntouched /\ Last.error = "CHECK_EQ weight_stype mom_stype"

\* C10 witness: an in-place SGDMomUpdateEx call with a row-sparse gradient
\* on a dense weight and momentum, whose fallback changed the weight
C10_Witness ==
  /\ Called /\ Last.op = "SGDMomUpdateEx" /\ ~SparseDriverHandles
  /\ pre["mom"].stype = pre["weight"].stype
  /\ pre["grad"].stype = kRowSparseStorage
  /\ DelegatedToFallback /\ bind.req = kWriteInplace
  /\ Val(mem, "weight") # Val(pre, "weight")


\* the last call was handed to a sparse driver by its entry point
SparseDrivers == {"SGDUpdateRspRspImpl", "SGDUpdateRspDnsImpl", "SGDMomUpdateRspRspRspImpl", "SGDMomUpdateRspDnsImpl", "AdamUpdateRspRspRspImpl"}
ReachedSparseDriver == Called /\ Last.driver \in SparseDrivers

\* a state tensor of the last call has another storage kind than the weight
StateKindMismatch ==
  \/ Last.op = "SGDMomUpdateEx" /\ pre["mom"].stype # pre["weight"].stype
  \/ Last.op = "AdamUpdateEx" /\ (pre["mean"].stype # pre["weight"].stype \/ pre["var"].stype # pre["weight"].stype)

\* C11: in SGDMomUpdateEx (momentum) and AdamUpdateEx (mean, var) a state
\* tensor whose storage kind differs from the weight's makes the call end in a
\* fatal precondition error before any driver, kernel or fallback is invoked
\* and before any tensor is modified.
C11_StorageKindConsistency ==
  (Called /\ StateKindMismatch) =>
    /\ Last.status = "fatal"
    /\ Last.driver = "none" /\ Last.kernel = "none"
    /\ Last.error \in {"CHECK_EQ weight_stype mom_stype", "CHECK_EQ mean_stype weight_stype", "CHECK_EQ var_stype weight_stype"}
    /\ mem = pre

\* C11 witness: an in-place SGDMomUpdateEx call with an initialized row-sparse
\* gradient on a row-sparse weight whose momentum is dense
C11_Witness ==
  /\ Called /\ Last.op = "SGDMomUpdateEx" /\ StateKindMismatch
  /\ pre["weight"].stype = kRowSparseStorage /\ RspAllRowsNonZero(pre["weight"])
  /\ pre["grad"].stype = kRowSparseStorage /\ StorageInitialized(pre["grad"])
  /\ bind.req = kWriteInplace

\* the gradient of the last call is row-sparse and lists no row
GradUninitialized == pre["grad"].stype = kRowSparseStorage /\ ~StorageInitialized(pre["grad"])

\* C12 (as stated): every call that reaches a sparse driver with an
\* overwriting or accumulating write mode ends in a fatal precondition
\* failure, never in a silent return or a kernel launch, whatever the other
\* inputs are, an uninitialized gradient included.
C12_WriteModeAlwaysFatal ==
  (ReachedSparseDriver /\ bind.req \in {kWriteTo, kAddTo}) =>
    Last.status = "fatal" /\ Last.kernel = "none"

\* C12 (amended): a call that reaches a sparse driver with an overwriting or
\* accumulating write mode never launches a kernel; it ends in a fatal
\* precondition failure, except that a call with an uninitialized row-sparse
\* gradient on a weight listing every row returns silently, the write mode
\* not being looked at.
C12_WriteModeFatalUnlessNoGradient ==
  (ReachedSparseDriver /\ bind.req \in {kWriteTo, kAddTo}) =>
    /\ Last.kernel = "none"
    /\ IF GradUninitialized /\ RspAllRowsNonZero(pre["weight"])
       THEN Last.status = "noop" /\ Last.error = "none"
       ELSE Last.status = "fatal"
    /\ (RspAllRowsNonZero(pre["weight"]) /\ ~GradUninitialized) => Last.error = "CHECK_EQ req kWriteInplace"

\* C12 witness: a call that reached a sparse driver with write mode kAddTo and
\* an initialized row-sparse gradient, on a weight listing every row
C12_Witness ==
  /\ ReachedSparseDriver /\ bind.req = kAddTo
  /\ pre["grad"].stype = kRowSparseStorage /\ StorageInitialized(pre["grad"])
  /\ RspAllRowsNonZero(pre["weight"])
  /\ Last.error = "CHECK_EQ req kWriteInplace"

\* the last call is one the drivers treat as a no-op: its row-sparse gradient
\* is uninitialized or its write mode is skip
NoOpCall == GradUninitialized \/ bind.req = kNullOp

\* C13 (as stated): in every sparse driver a call whose row-sparse gradient
\* is uninitialized or whose write mode is skip returns normally, without an
\* error and without modifying the output, whatever the other arguments are.
C13_BenignNoOp ==
  (ReachedSparseDriver /\ NoOpCall) =>
    /\ Last.status = "noop" /\ Last.error = "none"
    /\ mem[Out("weight")] = pre[Out("weight")]

\* C13 (amended): in every sparse driver a call whose row-sparse gradient is
\* uninitialized or whose write mode is skip, on a weight that lists every
\* row, returns normally, without an error, without launching a kernel and
\* without modifying the output; on a row-sparse weight that does not list
\* every row the call ends in the fatal all-rows check instead.
C13_BenignNoOpOnFullWeight ==
  (ReachedSparseDriver /\ NoOpCall) =>
    IF RspAllRowsNonZero(pre["weight"])
    THEN /\ Last.status = "noop" /\ Last.error = "none" /\ Last.kernel = "none"
         /\ mem[Out("weight")] = pre[Out("weight")]
         /\ mem["weight"] = pre["weight"]
    ELSE Last.status = "fatal" /\ Last.error = "CHECK_RSP_ALL_ROWS_NON_ZERO"

\* C13 witness: a call with an uninitialized gradient and write mode kWriteTo
\* that reached a sparse driver on a weight listing every row and returned
C13_Witness ==
  /\ ReachedSparseDriver /\ GradUninitialized /\ bind.req = kWriteTo
  /\ RspAllRowsNonZero(pre["weight"])
  /\ Last.status = "noop"


\* C14: all-or-nothing failure; whenever a call through a mixed-storage entry
\* point or a sparse driver ends in a fatal precondition failure, no kernel
\* was launched and every tensor the call can reach (output, weight, gradient
\* and state tensors, their initialized status included) is identical to its
\* value before the call.
C14_AllOrNothing ==
  (Called /\ FComputeEx /\ Last.status = "fatal") =>
    /\ Last.kernel = "none"
    /\ \A n \in Names : mem[n] = pre[n]


\* the value the RMSProp rule of the last call gives element i before the
\* weight clip, from the pre-call weight and the state the call stored:
\* weight - lr*clip(grad')/sqrt(state_n' + epsilon) for RMSPropUpdate,
\* weight + delta' for RMSPropAlexUpdate
UnclampedRMSProp(i) ==
  IF Last.kernel = "RMSPropUpdate"
  THEN Val(pre, "weight")[i] - attrs.lr * Div(EffectiveGradient[i], SquareRoot(Val(mem, "state_n")[i] + attrs.epsilon))
  ELSE Val(pre, "weight")[i] + Val(mem, "delta")[i]

DecayedWeight == IF Last.kernel \in {"MP_SGDKernel", "MP_SGDMomKernel"} THEN "weight32" ELSE "weight"

\* the rescaled gradient of the last call at element i, clipped by itself,
\* and clipped together with the weight decay term
ClippedGrad(i) == Sentinel(attrs.rescale_grad * Val(pre, "grad")[i], attrs.clip_gradient)
ClippedGradAndDecay(i) == Sentinel(attrs.rescale_grad * Val(pre, "grad")[i] + attrs.wd * Val(pre, DecayedWeight)[i], attrs.clip_gradient)

\* the first quantity the last call's rule derives from the gradient term e at
\* element i is what the call stored: the new moment (Adam), the new running
\* average of squares (RMSProp)
MomentFrom(i, e) ==
  CASE Last.kernel \in AdamKernels -> Val(mem, "mean")[i] = NewMean(Val(pre, "mean")[i], e) /\ Val(mem, "var")[i] = NewVar(Val(pre, "var")[i], e)
    [] Last.kernel \in {"RMSPropUpdate", "RMSPropAlexUpdate"} -> Val(mem, "state_n")[i] = NewStateN(Val(pre, "state_n")[i], e)
    [] OTHER -> TRUE

\* the step the last call's SGD-family rule took at element i is -lr*e minus
\* the separate decay lr*d of the weight
StepFrom(i, e, d) ==
  LET w == Val(pre, DecayedWeight)[i]
  IN  CASE Last.kernel \in SGDKernels -> Assigned(Out("weight"), i, w - attrs.lr * d - attrs.lr * e)
        [] Last.kernel \in SGDMomKernels -> Val(mem, "mom")[i] = attrs.momentum * Val(pre, "mom")[i] - attrs.lr * d - attrs.lr * e
        [] Last.kernel = "MP_SGDKernel" -> Val(mem, "weight32")[i] = w - attrs.lr * d - attrs.lr * e
        [] Last.kernel = "MP_SGDMomKernel" -> Val(mem, "mom32")[i] = attrs.momentum * Val(pre, "mom32")[i] - attrs.lr * d - attrs.lr * e
        [] OTHER -> TRUE

\* C16 (as stated): in every rule rescale_grad and wd are both applied before
\* the gradient clip: the clipped quantity is rescale_grad*grad + wd*weight,
\* so the weight decay contribution is subject to the clip bound in SGD and
\* SGD momentum as well as in Adam and RMSProp.
C16_DecayInsideClip ==
  (Called /\ Last.status = "ok") =>
    \A i \in Idx : Updated(i) =>
      /\ MomentFrom(i, ClippedGradAndDecay(i))
      /\ StepFrom(i, ClippedGradAndDecay(i), 0)

\* C16 (amended): in every rule rescale_grad is applied before the gradient
\* clip; the weight decay term wd*weight is part of the clipped quantity in
\* Adam and in both RMSProp variants only, while SGD, SGD momentum and their
\* mixed-precision forms clip rescale_grad*grad alone and apply the decay
\* lr*wd*weight outside the clip, unbounded by it.
C16_DecayInsideClipOnlyInAdamAndRMSProp ==
  (Called /\ Last.status = "ok") =>
    \A i \in Idx : Updated(i) =>
      /\ MomentFrom(i, ClippedGradAndDecay(i))
      /\ StepFrom(i, ClippedGrad(i), attrs.wd * Val(pre, DecayedWeight)[i])

\* C16 witness: an SGD momentum call with clipping on and wd # 0, on an
\* element whose rescaled gradient is within the clip bound while gradient
\* plus decay is not, so the place of the decay term shows in the result
C16_Witness ==
  /\ Called /\ Last.kernel \in SGDMomKernels /\ attrs.clip_gradient >= 0 /\ attrs.wd # 0
  /\ \E i \in Idx :
       /\ Updated(i)
       /\ ClippedGrad(i) = attrs.rescale_grad * Val(pre, "grad")[i]
       /\ ClippedGradAndDecay(i) # attrs.rescale_grad * Val(pre, "grad")[i] + attrs.wd * Val(pre, "weight")[i]
       /\ Val(mem, "mom")[i] # attrs.momentum * Val(pre, "mom")[i] - attrs.lr * ClippedGradAndDecay(i)


\* every entry of row r of the last call's dense gradient is zero
ZeroGradRow(r) == \A j \in 0..(RowLen - 1) : Val(pre, "grad")[r * RowLen + j] = 0

\* C17: SGDRspDnsKernel and SGDMomRspDnsKernel, for every listed weight row:
\* if every entry of the dense gradient row is zero, the weight row and the
\* momentum row are left unchanged, also with wd # 0 and a non-zero momentum;
\* otherwise every column of the row, those with a zero gradient entry
\* included, receives the dense-kernel formula.
C17_RowSkipOnZeroGradient ==
  (Called /\ Last.kernel \in RspDnsKernels) =>
    \A r \in 0..(NumRows - 1) : \A j \in 0..(RowLen - 1) :
      LET i == r * RowLen + j
          w == Val(pre, "weight")[i]
      IN  IF ZeroGradRow(r)
          THEN /\ Val(mem, "weight")[i] = w
               /\ Val(mem, Out("weight"))[i] = Val(pre, Out("weight"))[i]
               /\ Val(mem, "mom")[i] = Val(pre, "mom")[i]
          ELSE IF Last.kernel = "SGDRspDnsKernel"
               THEN Val(mem, Out("weight"))[i] = NewWeightSGD(w, ClippedGrad(i))
               ELSE /\ Val(mem, "mom")[i] = NewMom(Val(pre, "mom")[i], w, ClippedGrad(i))
                    /\ Val(mem, Out("weight"))[i] = w + NewMom(Val(pre, "mom")[i], w, ClippedGrad(i))

\* C17 witness: an SGDMomRspDnsKernel launch with wd # 0 and momentum # 0 on a
\* gradient with an all-zero row whose weight and momentum are non-zero, and
\* a row with one non-zero entry where a column with a zero gradient entry
\* changed its weight
C17_Witness ==
  /\ Called /\ Last.kernel = "SGDMomRspDnsKernel" /\ attrs.wd # 0 /\ attrs.momentum # 0
  /\ \E r \in 0..(NumRows - 1) :
       /\ ZeroGradRow(r)
       /\ \A j \in 0..(RowLen - 1) : Val(pre, "weight")[r * RowLen + j] # 0 /\ Val(pre, "mom")[r * RowLen + j] # 0
  /\ \E r \in 0..(NumRows - 1) : \E j \in 0..(RowLen - 1) :
       /\ ~ZeroGradRow(r)
       /\ Val(pre, "grad")[r * RowLen + j] = 0
       /\ Val(mem, "weight")[r * RowLen + j] # Val(pre, "weight")[r * RowLen + j]


\* the drivers that fill an uninitialized row-sparse state tensor, and the
\* state tensors of the last call's rule
LazyDrivers == {"SGDMomUpdateRspDnsImpl", "SGDMomUpdateRspRspRspImpl", "AdamUpdateRspRspRspImpl"}
StateTensors == IF Last.op = "SGDMomUpdateEx" THEN {"mom"} ELSE IF Last.op = "AdamUpdateEx" THEN {"mean", "var"} ELSE {}

\* memory m with every uninitialized state tensor of the rule replaced by an
\* initialized one holding an all-zero row for every row
ZeroInitialized(m) ==
  [n \in Names |-> IF n \in StateTensors /\ ~StorageInitialized(m[n]) THEN RspTensor(AllRows, Zeros(Size)) ELSE m[n]]

\* the memory the last call's entry point leaves when started on memory m
RerunFrom(m) ==
  IF Last.op = "SGDMomUpdateEx" THEN SGDMomUpdateEx(m, attrs, bind.req, Out("weight")).mem
  ELSE AdamUpdateEx(m, attrs, bind.req, Out("weight")).mem

\* C18: lazy state initialization; an updating call of SGDMomUpdateRspDnsImpl,
\* SGDMomUpdateRspRspRspImpl or AdamUpdateRspRspRspImpl that finds a state
\* tensor (mom; mean, var) uninitialized leaves it initialized and leaves the
\* memory the same call leaves when started from an initialized all-zero
\* state; a state tensor that is initialized at entry is not reset: the
\* elements the call does not update keep their values and the updated ones
\* are computed by the rule from the values stored before the call.
C18_LazyStateInit ==
  (Called /\ Last.status = "ok" /\ Last.driver \in LazyDrivers) =>
    /\ \A n \in StateTensors :
         /\ StorageInitialized(mem[n]) /\ RspAllRowsNonZero(mem[n])
         /\ StorageInitialized(pre[n]) =>
              /\ mem[n].idx = pre[n].idx
              /\ \A i \in Idx : ~Updated(i) => mem[n].data[i] = pre[n].data[i]
    /\ mem = RerunFrom(ZeroInitialized(pre))
    /\ RuleHolds(EffectiveGradient)

\* C18 witness: two updating calls through a lazy driver; the first found the
\* momentum uninitialized, the second started from the non-zero momentum the
\* first stored and changed it again
C18_Witness ==
  /\ Len(calls) = 2 /\ calls[1].status = "ok" /\ Last.status = "ok"
  /\ Last.driver \in LazyDrivers /\ Last.op = "SGDMomUpdateEx"
  /\ ~StorageInitialized(init["mom"])
  /\ StorageInitialized(pre["mom"]) /\ (\E i \in Idx : pre["mom"].data[i] # 0)
  /\ mem["mom"] # pre["mom"]


\* the memory the dense entry point of the last call's rule leaves when run,
\* with the call's hyperparameters and write mode, on the pre-call tensors
\* held as dense arrays (the gradient reading zero on the rows it omits)
DenseReference ==
  LET dense == [n \in Names |-> Densify(pre[n])]
  IN  CASE Last.kernel = "SGDDnsRspKernel" -> SGDUpdate(dense, attrs, "weight", "grad", bind.req, Out("weight")).mem
        [] Last.kernel = "SGDMomDnsRspDnsKernel" -> SGDMomUpdate(dense, attrs, "weight", "grad", "mom", bind.req, Out("weight")).mem
        [] Last.kernel = "AdamDnsRspDnsKernel" -> AdamUpdate(dense, attrs, "weight", "grad", "mean", "var", bind.req, Out("weight")).mem

\* the tensors the rule of the last call computes: weight and state
Computed == {"weight"} \cup StateTensors

\* C19: for SGD, SGD momentum and Adam, a DnsRspDns kernel launch leaves every
\* row the row-sparse gradient lists, in the weight and in each state tensor,
\* equal to what the dense entry point of the same rule computes for that row
\* from the same weight, state, hyperparameters and gradient values; when the
\* gradient lists every row the two leave identical weight and state tensors.
C19_SparseAgreesWithDense ==
  (Called /\ Last.kernel \in DnsRspDnsKernels) =>
    /\ \A n \in Computed : \A i \in Idx :
         GradLists(i \div RowLen) => Val(mem, n)[i] = DenseReference[n].data[i]
    /\ pre["grad"].idx = AllRows => \A n \in Computed : Val(mem, n) = DenseReference[n].data

\* C19 witness: an AdamDnsRspDnsKernel launch with wd # 0 on a gradient that
\* lists some row but not every row, which changed weight, mean and var
C19_Witness ==
  /\ Called /\ Last.kernel = "AdamDnsRspDnsKernel" /\ attrs.wd # 0
  /\ pre["grad"].idx # AllRows
  /\ \E i \in Idx :
       /\ GradLists(i \div RowLen)
       /\ Val(mem, "weight")[i] # Val(pre, "weight")[i]
       /\ Val(mem, "mean")[i] # Val(pre, "mean")[i]
       /\ Val(mem, "var")[i] # Val(pre, "var")[i]


\* the row indices ix are strictly increasing
StrictlyIncreasing(ix) == \A a \in DOMAIN ix : \A b \in DOMAIN ix : a < b => ix[a] < ix[b]

\* the memory the launching driver or entry point leaves when it runs the
\* work items one after the other in index order
InOrder ==
  CASE launch.kernel = "SGDKernel" -> SGDUpdate(pre, attrs, "weight", "grad", bind.req, Out("weight")).mem
    [] launch.kernel = "SGDDnsRspKernel" -> SGDUpdateDnsRspImpl(pre, attrs, "weight", "grad", bind.req, Out("weight")).mem
    [] launch.kernel = "SGDRspDnsKernel" -> SGDUpdateRspDnsImpl(pre, attrs, "weight", "grad", bind.req, Out("weight")).mem
    [] launch.kernel = "SGDMomKernel" -> SGDMomUpdate(pre, attrs, "weight", "grad", "mom", bind.req, Out("weight")).mem
    [] launch.kernel = "SGDMomDnsRspDnsKernel" -> SGDMomUpdateDnsRspDnsImpl(pre, attrs, "weight", "grad", "mom", bind.req, Out("weight")).mem
    [] launch.kernel = "SGDMomRspDnsKernel" -> SGDMomUpdateRspDnsImpl(pre, attrs, "weight", "grad", "mom", bind.req, Out("weight")).mem
    [] launch.kernel = "AdamDnsRspDnsKernel" -> AdamUpdateDnsRspDnsImpl(pre, attrs, "weight", "grad", "mean", "var", bind.req, Out("weight")).mem

\* C20: data-race freedom of the parallel map; within one kernel launch whose
\* row index array is strictly increasing, no two work items load or store
\* an element that either of them stores, and so, whatever the order in which
\* the work items run, every element holds the value its own work item
\* computes from the memory at the launch (or its value at the launch when
\* no work item that has run stores to it), and once every work item has run
\* weight, output and state are those of the run in index order.
C20_DataRaceFree ==
  (dispatch = "Launch" /\ StrictlyIncreasing(pre["grad"].idx)) =>
    /\ \A a \in WorkItems : \A b \in WorkItems \ {a} : Writes(a) \cap (Reads(b) \cup Writes(b)) = {}
    /\ \A n \in Names : \A e \in DOMAIN mem[n].data :
         /\ (\A i \in launch.done : <<n, e>> \notin Writes(i)) => mem[n].data[e] = pre[n].data[e]
         /\ \A i \in launch.done : <<n, e>> \in Writes(i) => mem[n].data[e] = Map(pre, i)[n].data[e]
    /\ \A n \in Names : mem[n].idx = pre[n].idx /\ mem[n].stype = pre[n].stype
    /\ launch.done = WorkItems => mem = InOrder

\* C20 witness: an AdamDnsRspDnsKernel launch of several work items in which
\* every work item but the first has run, and has changed weight, mean and var
C20_Witness ==
  /\ dispatch = "Launch" /\ launch.kernel = "AdamDnsRspDnsKernel"
  /\ Cardinality(WorkItems) > 1
  /\ launch.done = WorkItems \ {0}
  /\ \E i \in launch.done : \A e \in ItemElems(i) :
       /\ mem["weight"].data[e] # pre["weight"].data[e]
       /\ mem["mean"].data[e] # pre["mean"].data[e]
       /\ mem["var"].data[e] # pre["var"].data[e]


\* C21: the gradient is a read-only input; no entry point of any rule and no
\* sparse driver modifies the gradient tensor, so after every call, however
\* it ended, the gradient holds the storage kind, row indices and values it
\* was passed with.
C21_GradientReadOnly ==
  Called => mem["grad"] = pre["grad"]


\* the weight and output tensors of the last call's rule
WeightTensors == {"weight", "out", "weight16", "out16"}

\* C22 (as stated): a skip write mode makes the whole call side-effect free;
\* for every entry point and driver, a call whose write mode is skip leaves
\* the output, every state tensor (mom, mean, var, state_n, state_g, delta),
\* the float32 master buffer and the initialized status of sparse state
\* unchanged.
C22_SkipIsSideEffectFree ==
  (Called /\ bind.req = kNullOp) => \A n \in Names \ {"grad"} : mem[n] = pre[n]

\* C22 (amended): a skip write mode leaves the output and the weight
\* unchanged in every entry point and driver; the dense entry points, also
\* when reached through the densify fallback, still store the state tensors
\* and the float32 master buffer their rule computes; the sparse drivers
\* launch no kernel and change no value, but SGDMomUpdateRspRspRspImpl and
\* AdamUpdateRspRspRspImpl, on a weight listing every row, first zero-fill a
\* state tensor that is uninitialized.
C22_SkipLeavesOutputOnly ==
  (Called /\ bind.req = kNullOp) =>
    /\ \A n \in WeightTensors : mem[n] = pre[n]
    /\ IF Last.driver \in SparseDrivers
       THEN /\ Last.kernel = "none"
            /\ \A n \in Names \ {"grad"} : Val(mem, n) = Val(pre, n)
            /\ IF Last.driver \in {"SGDMomUpdateRspRspRspImpl", "AdamUpdateRspRspRspImpl"} /\ RspAllRowsNonZero(pre["weight"])
               THEN \A n \in Names \ {"grad"} : mem[n] = ZeroInitialized(pre)[n]
               ELSE \A n \in Names \ {"grad"} : mem[n] = pre[n]
       ELSE Last.status = "ok" => RuleHolds(EffectiveGradient)

\* C22 witness: a dense SGD momentum call with write mode skip that left the
\* output as it was and stored a new momentum
C22_Witness ==
  /\ Called /\ bind.req = kNullOp /\ Last.kernel = "SGDMomKernel" /\ Last.driver = "none"
  /\ mem[Out("weight")] = pre[Out("weight")]
  /\ \E i \in Idx : mem["mom"].data[i] # pre["mom"].data[i]


\* the all-sparse drivers, which hand row-sparse weight, output and state to
\* the dense-addressed row kernel
AllSparseDrivers == {"SGDUpdateRspRspImpl", "SGDMomUpdateRspRspRspImpl", "AdamUpdateRspRspRspImpl"}

\* the tensors the row kernel of the last call addresses at
\* grad_idx[i]*row_length + j
Addressed == {"weight", Out("weight")} \cup StateTensors

\* the element indices the row kernel of the last call computes: one per
\* listed gradient row i and column j
KernelIndices == { pre["grad"].idx[i] * RowLen + j : i \in DOMAIN pre["grad"].idx, j \in 0..(RowLen - 1) }

====
